---- MODULE Spec2Model ----
(***************************************************************************)
(* Retrieval-and-analysis pipeline of the investment AI agent backend:     *)
(* the structured-output generation client (strict_json_analyze, in its    *)
(* two copies src/backend/app/services/llm.py and                          *)
(* src/investment-ai-agent/backend/app/services/llm.py) and the rule-based *)
(* compliance screen (screen_sharia).                                      *)
(***************************************************************************)
EXTENDS Integers, Sequences, FiniteSets, TLC

(***************************************************************************)
(* Strings.  A Python str is modelled as a run-length encoded sequence of  *)
(* characters: a sequence of pairs <<c, n>> (n >= 1 copies of character c, *)
(* adjacent runs carry different characters).  Length, slicing and         *)
(* concatenation are computed on the runs, so a 120,000 character context  *)
(* is an ordinary value.                                                   *)
(***************************************************************************)
\* a followed by b, both in normal form
Cat(a, b) ==
    IF a = <<>> THEN b
    ELSE IF b = <<>> THEN a
    ELSE IF a[Len(a)][1] = b[1][1]
    THEN SubSeq(a, 1, Len(a) - 1) \o << <<b[1][1], a[Len(a)][2] + b[1][2]>> >> \o Tail(b)
    ELSE a \o b

\* the normal form of the runs r (halving keeps the recursion shallow)
RECURSIVE Norm(_)
Norm(r) ==
    IF r = <<>> THEN <<>>
    ELSE IF Len(r) = 1 THEN (IF r[1][2] = 0 THEN <<>> ELSE <<r[1]>>)
    ELSE Cat(Norm(SubSeq(r, 1, Len(r) \div 2)),
             Norm(SubSeq(r, (Len(r) \div 2) + 1, Len(r))))

\* the str whose characters are the elements of the tuple cs
Lit(cs) == Norm([i \in 1..Len(cs) |-> <<cs[i], 1>>])

\* the str of n copies of character c
Fill(c, n) == Norm(<< <<c, n>> >>)

\* len(s)
RECURSIVE StrLen(_)
StrLen(s) ==
    IF s = <<>> THEN 0
    ELSE IF Len(s) = 1 THEN s[1][2]
    ELSE StrLen(SubSeq(s, 1, Len(s) \div 2))
         + StrLen(SubSeq(s, (Len(s) \div 2) + 1, Len(s)))

\* s[:n], for n >= 0
RECURSIVE Slice(_, _)
Slice(s, n) ==
    IF n <= 0 \/ s = <<>> THEN <<>>
    ELSE IF Len(s) = 1 THEN (IF s[1][2] >= n THEN << <<s[1][1], n>> >> ELSE s)
    ELSE LET left == SubSeq(s, 1, Len(s) \div 2)
             right == SubSeq(s, (Len(s) \div 2) + 1, Len(s))
         IN  IF n <= StrLen(left)
             THEN Slice(left, n)
             ELSE left \o Slice(right, n - StrLen(left))

\* sep.join(parts)
RECURSIVE Join(_, _)
Join(sep, parts) ==
    IF parts = <<>> THEN <<>>
    ELSE IF Len(parts) = 1 THEN parts[1]
    ELSE Cat(Cat(Join(sep, SubSeq(parts, 1, Len(parts) \div 2)), sep),
             Join(sep, SubSeq(parts, (Len(parts) \div 2) + 1, Len(parts))))

Digits == <<"0", "1", "2", "3", "4", "5", "6", "7", "8", "9">>

\* str(n) for a non-negative integer n
RECURSIVE Str(_)
Str(n) ==
    IF n < 10 THEN Lit(<<Digits[n + 1]>>)
    ELSE Cat(Str(n \div 10), Lit(<<Digits[(n % 10) + 1]>>))

\* a is a prefix of b
IsPrefix(a, b) == Slice(b, StrLen(a)) = a

NA == Lit(<<"N", "/", "A">>)
EmptyStr == <<>>

(***************************************************************************)
(* Values exchanged with the language model.                               *)
(***************************************************************************)
\* a JSON scalar stored under "business_overview"
JStr(t) == [ty |-> "str", s |-> t]
JNull == [ty |-> "null", s |-> <<>>]
JNum == [ty |-> "num", s |-> <<>>]

\* an entry of "red_flags"; page 0 stands for None
Flag(flag, severity, category, page) ==
    [flag |-> flag, severity |-> severity, category |-> category, page |-> page]

\* a Python dict holding an analysis: has is the set of keys present, the
\* fields of absent keys hold fixed fillers
Dict(has, company_name, red_flags, business_overview) ==
    [has |-> has,
     company_name |-> IF "company_name" \in has THEN company_name ELSE "",
     red_flags |-> IF "red_flags" \in has THEN red_flags ELSE <<>>,
     business_overview |-> IF "business_overview" \in has THEN business_overview ELSE JNull]

EmptyDict == Dict({}, "", <<>>, JNull)

AnalysisKeys == {"company_name", "red_flags", "business_overview"}

CANNED_OVERVIEW_BACKEND ==
    Lit(<<"I", "n", "n", "o", "v", "a", "t", "e", " ", "I", "n", "c", ".", " ", "p",
          "r", "o", "v", "i", "d", "e", "s", " ", "a", " ", "l", "e", "a", "d", "i",
          "n", "g", " ", "A", "I", "-", "p", "o", "w", "e", "r", "e", "d", " ", "w",
          "o", "r", "k", "f", "l", "o", "w", " ", "a", "u", "t", "o", "m", "a", "t",
          "i", "o", "n", " ", "p", "l", "a", "t", "f", "o", "r", "m", " ", "f", "o",
          "r", " ", "l", "a", "r", "g", "e", " ", "e", "n", "t", "e", "r", "p", "r",
          "i", "s", "e", "s", ".", " ", "I", "t", "s", " ", "m", "a", "i", "n", " ",
          "p", "r", "o", "d", "u", "c", "t", " ", "o", "p", "t", "i", "m", "i", "z",
          "e", "s", " ", "s", "u", "p", "p", "l", "y", " ", "c", "h", "a", "i", "n",
          " ", "l", "o", "g", "i", "s", "t", "i", "c", "s", ",", " ", "r", "e", "d",
          "u", "c", "i", "n", "g", " ", "o", "p", "e", "r", "a", "t", "i", "o", "n",
          "a", "l", " ", "c", "o", "s", "t", "s", " ", "f", "o", "r", " ", "c", "l",
          "i", "e", "n", "t", "s", ".">>)

CANNED_OVERVIEW_AGENT ==
    Lit(<<"I", "n", "n", "o", "v", "a", "t", "e", " ", "I", "n", "c", ".", " ", "i",
          "s", " ", "a", " ", "l", "e", "a", "d", "i", "n", "g", " ", "p", "r", "o",
          "v", "i", "d", "e", "r", " ", "o", "f", " ", "A", "I", "-", "p", "o", "w",
          "e", "r", "e", "d", " ", "w", "o", "r", "k", "f", "l", "o", "w", " ", "a",
          "u", "t", "o", "m", "a", "t", "i", "o", "n", " ", "p", "l", "a", "t", "f",
          "o", "r", "m", "s", ".">>)

CANNED_RED_FLAG ==
    Flag("High dependency on a single large customer.", "Medium", "Market", 20)

CANNED_ANALYSIS_RESPONSE(impl) ==
    IF impl = "backend"
    THEN Dict(AnalysisKeys, "Innovate Inc.", <<CANNED_RED_FLAG>>,
              JStr(CANNED_OVERVIEW_BACKEND))
    ELSE Dict(AnalysisKeys, "Innovate Inc. (DEMO)", <<CANNED_RED_FLAG>>,
              JStr(CANNED_OVERVIEW_AGENT))

\* an exception object; cause is what "raise ... from e" records (__cause__),
\* context the exception being handled when it was raised (__context__),
\* detail the text of e interpolated into the message
NoErr == [type |-> "none", msg |-> ""]
Err(type, msg) == [type |-> type, msg |-> msg]
Exc(type, msg, detail, cause, context) ==
    [type |-> type, msg |-> msg, detail |-> detail, cause |-> cause, context |-> context]
NoExc == Exc("none", "", "", NoErr, NoErr)

\* response.choices[0].message.content: None, or a str that is either the
\* serialisation of the dict doc (parses) or the text `text` (does not)
NoneRaw == [isnone |-> TRUE, parses |-> FALSE, doc |-> EmptyDict, text |-> <<>>]
JsonRaw(doc) == [isnone |-> FALSE, parses |-> TRUE, doc |-> doc, text |-> <<>>]
TextRaw(t) == [isnone |-> FALSE, parses |-> FALSE, doc |-> EmptyDict, text |-> t]

\* json.loads(raw)
json_loads(raw) ==
    IF raw.isnone
    THEN [ok |-> FALSE, doc |-> EmptyDict,
          err |-> Err("TypeError", "the JSON object must be str, bytes or bytearray, not NoneType")]
    ELSE IF raw.parses
    THEN [ok |-> TRUE, doc |-> raw.doc, err |-> NoErr]
    ELSE [ok |-> FALSE, doc |-> EmptyDict, err |-> Err("JSONDecodeError", "Expecting value")]

\* what one client.chat.completions.create call can do: answer with a
\* content, or raise an OpenAIError
Content(raw) == [kind |-> "content", raw |-> raw, err |-> NoErr]
Failure(err) == [kind |-> "error", raw |-> NoneRaw, err |-> err]

(***************************************************************************)
(* strict_json_analyze.  impl names the copy: "backend" is                 *)
(* src/backend/app/services/llm.py, "agent" is                             *)
(* src/investment-ai-agent/backend/app/services/llm.py.                    *)
(***************************************************************************)
MAX_CONTEXT_CHARS == 120000

CORRECTIVE_BACKEND == "Respond with VALID JSON only. No extra text."
CORRECTIVE_AGENT == "Your response was not valid JSON. Respond with VALID JSON only."
INVALID_JSON_MSG == "Failed to get valid JSON from LLM after 2 attempts."

\* one entry of messages; content is the literal lit followed by the str text
Msg(role, lit, text) == [role |-> role, lit |-> lit, text |-> text]

\* f"--- START OF PAGE {chunk.get('page_number', 'N/A')} ---\n{chunk.get('text', '')}"
PageBackend(chunk) ==
    Cat(Cat(Cat(Lit(<<"-", "-", "-", " ", "S", "T", "A", "R", "T", " ", "O", "F", " ",
                      "P", "A", "G", "E", " ">>),
                IF "page_number" \in DOMAIN chunk THEN Str(chunk.page_number) ELSE NA),
            Lit(<<" ", "-", "-", "-", "\n">>)),
        IF "text" \in DOMAIN chunk THEN chunk.text ELSE EmptyStr)

\* f"--- PAGE {chunk.get('metadata', {}).get('page', 'N/A')} ---\n{chunk['document']}"
PageAgent(chunk) ==
    Cat(Cat(Cat(Lit(<<"-", "-", "-", " ", "P", "A", "G", "E", " ">>),
                IF "metadata" \in DOMAIN chunk /\ "page" \in DOMAIN chunk.metadata
                THEN Str(chunk.metadata.page) ELSE NA),
            Lit(<<" ", "-", "-", "-", "\n">>)),
        chunk.document)

\* "\n\n".join(pages)
JoinPages(impl, chunks) ==
    Join(Lit(<<"\n", "\n">>),
         [i \in 1..Len(chunks) |->
            IF impl = "backend" THEN PageBackend(chunks[i]) ELSE PageAgent(chunks[i])])

\* if len(context) > MAX_CONTEXT_CHARS: context = context[:MAX_CONTEXT_CHARS]
\* (the agent copy sends the joined pages as they are)
Truncate(impl, context) ==
    IF impl = "backend" /\ StrLen(context) > MAX_CONTEXT_CHARS
    THEN Slice(context, MAX_CONTEXT_CHARS)
    ELSE context

\* the messages list built before the loop
InitialMessages(prompt, context) ==
    << Msg("system", prompt, EmptyStr),
       Msg("user", "Here is the document context:\n", context) >>

\* the values of "for attempt in range(2)"
AttemptRange == 0..1

\* the return value: None, or a dict
NoneResult == [isnone |-> TRUE, doc |-> EmptyDict]
DictResult(doc) == [isnone |-> FALSE, doc |-> doc]

\* the frame of one invocation.  requests lists the messages argument of
\* every chat.completions.create call issued so far and outcomes what each
\* call did; pc is "idle" (never called), "loop" (about to issue the request
\* of iteration attempt), "returned" or "raised".
IdleFrame ==
    [pc |-> "idle", impl |-> "backend", chunks |-> <<>>, prompt |-> "", doc_id |-> "",
     joined |-> <<>>, context |-> <<>>, messages |-> <<>>, attempt |-> 0,
     last_raw |-> NoneRaw, result |-> NoneResult, exc |-> NoExc,
     requests |-> <<>>, outcomes |-> <<>>]

\* Return as it would be if a retry handed back an empty default record
Return_DefaultOnRetry(f, result) ==
    [f EXCEPT !.pc = "returned",
              !.result = IF f.attempt = 0 THEN result ELSE DictResult(EmptyDict)]

Return(f, result) == [f EXCEPT !.pc = "returned", !.result = result]
Raise(f, exc) == [f EXCEPT !.pc = "raised", !.exc = exc]

\* NextIteration as it would be if a retry did not count the attempt
NextIteration_NoAdvance(f) == f

\* "continue" (or the end of the except block): the next value of the loop
\* variable, or the statement after the loop when the range is exhausted
NextIteration(f) ==
    IF f.attempt + 1 \in AttemptRange
    THEN [f EXCEPT !.attempt = f.attempt + 1]
    ELSE IF f.impl = "backend"
    THEN Return(f, NoneResult)
    ELSE Raise(f, Exc("ValueError", "Should not be reachable.", "", NoErr, NoErr))

\* {"role": "assistant", "content": last_raw or "Invalid format."}
AssistantEcho(last_raw) ==
    IF last_raw.isnone \/ last_raw.text = EmptyStr
    THEN Msg("assistant", "Invalid format.", EmptyStr)
    ELSE Msg("assistant", "", last_raw.text)

\* OnJSONDecodeErrorBackend as it would be if the second parse failure fell
\* back to an empty default record
OnJSONDecodeErrorBackend_Default(f, e) ==
    IF f.attempt = 0
    THEN NextIteration([f EXCEPT !.messages =
             @ \o << AssistantEcho(f.last_raw), Msg("user", CORRECTIVE_BACKEND, EmptyStr) >>])
    ELSE Return(f, DictResult(EmptyDict))

\* backend copy: except json.JSONDecodeError as e
OnJSONDecodeErrorBackend(f, e) ==
    IF f.attempt = 0
    THEN NextIteration([f EXCEPT !.messages =
             @ \o << AssistantEcho(f.last_raw), Msg("user", CORRECTIVE_BACKEND, EmptyStr) >>])
    ELSE Raise(f, Exc("ValueError", INVALID_JSON_MSG, "", e, e))

\* backend copy: except Exception as e
OnExceptionBackend(f, e) ==
    IF f.attempt = 0
    THEN NextIteration([f EXCEPT !.messages =
             Append(@, Msg("user", CORRECTIVE_BACKEND, EmptyStr))])
    ELSE Raise(f, Exc("RuntimeError", "LLM call failed after retry: ", e.msg, e, e))

\* agent copy: except (json.JSONDecodeError, OpenAIError) as e; the raise has
\* no "from e" and its message does not mention e
OnErrorAgent(f, e) ==
    IF f.attempt = 0
    THEN NextIteration([f EXCEPT !.messages =
             Append(@, Msg("user", CORRECTIVE_AGENT, EmptyStr))])
    ELSE Raise(f, Exc("ValueError", INVALID_JSON_MSG, "", NoErr, e))

\* one iteration of the loop body: the request is issued with the current
\* messages and the call does o
Attempt(f, o) ==
    LET g == [f EXCEPT !.requests = Append(@, f.messages),
                       !.outcomes = Append(@, o)]
    IN  IF o.kind = "error"
        THEN IF f.impl = "backend"
             THEN OnExceptionBackend(g, o.err)
             ELSE OnErrorAgent(g, o.err)
        ELSE LET h == IF f.impl = "backend" THEN [g EXCEPT !.last_raw = o.raw] ELSE g
                 r == json_loads(o.raw)
             IN  IF r.ok
                 THEN Return(h, DictResult(r.doc))
                 ELSE IF r.err.type = "JSONDecodeError"
                 THEN IF f.impl = "backend"
                      THEN OnJSONDecodeErrorBackend(h, r.err)
                      ELSE OnErrorAgent(h, r.err)
                 ELSE IF f.impl = "backend"
                 THEN OnExceptionBackend(h, r.err)
                 ELSE Raise(h, Exc(r.err.type, r.err.msg, "", NoErr, NoErr))

\* strict_json_analyze from its entry to the first request (or to its end,
\* when it ends before the loop)
StartAnalyze(impl, demo, chunks, prompt, doc_id) ==
    LET f0 == [IdleFrame EXCEPT !.impl = impl, !.chunks = chunks,
                                !.prompt = prompt, !.doc_id = doc_id]
    IN  IF demo
        THEN IF doc_id = "doc123"
             THEN Return(f0, DictResult(CANNED_ANALYSIS_RESPONSE(impl)))
             ELSE IF impl = "backend"
             THEN Return(f0, DictResult([CANNED_ANALYSIS_RESPONSE(impl)
                                           EXCEPT !.company_name = "Generic Demo Corp"]))
             ELSE Return(f0, DictResult(EmptyDict))
        ELSE IF impl = "agent" /\ \E i \in 1..Len(chunks) : "document" \notin DOMAIN chunks[i]
        THEN Raise(f0, Exc("KeyError", "document", "", NoErr, NoErr))
        ELSE LET joined == JoinPages(impl, chunks)
                 context == Truncate(impl, joined)
             IN  [f0 EXCEPT !.pc = "loop", !.joined = joined, !.context = context,
                            !.messages = InitialMessages(prompt, context)]

(***************************************************************************)
(* screen_sharia (src/investment-ai-agent/backend/app/services/sharia.py). *)
(* Matching works on the characters of the text.                           *)
(***************************************************************************)
\* the characters of a str, one element per character
RECURSIVE Expand(_)
Expand(s) ==
    IF s = <<>> THEN <<>>
    ELSE IF Len(s) = 1 THEN [i \in 1..s[1][2] |-> s[1][1]]
    ELSE Expand(SubSeq(s, 1, Len(s) \div 2))
         \o Expand(SubSeq(s, (Len(s) \div 2) + 1, Len(s)))

UpperCase == <<"A", "B", "C", "D", "E", "F", "G", "H", "I", "J", "K", "L", "M",
               "N", "O", "P", "Q", "R", "S", "T", "U", "V", "W", "X", "Y", "Z">>
LowerCase == <<"a", "b", "c", "d", "e", "f", "g", "h", "i", "j", "k", "l", "m",
               "n", "o", "p", "q", "r", "s", "t", "u", "v", "w", "x", "y", "z">>

LowerChar(c) ==
    IF \E i \in 1..26 : UpperCase[i] = c
    THEN LowerCase[CHOOSE i \in 1..26 : UpperCase[i] = c]
    ELSE c

\* s.lower()
Lower(s) == Norm([i \in 1..Len(s) |-> <<LowerChar(s[i][1]), s[i][2]>>])

\* the regular expression class \w
IsWordChar(c) ==
    \/ \E i \in 1..26 : c = UpperCase[i] \/ c = LowerCase[i]
    \/ \E i \in 1..10 : c = Digits[i]
    \/ c = "_"

\* the regular expression assertion \b before position p of cs (p in 1..Len+1)
WordBoundary(cs, p) ==
    LET before == p - 1 \in 1..Len(cs) /\ IsWordChar(cs[p - 1])
        after == p \in 1..Len(cs) /\ IsWordChar(cs[p])
    IN  before /= after

\* kw occurs in cs at position i
OccursAt(kw, cs, i) ==
    /\ i + Len(kw) - 1 <= Len(cs)
    /\ \A j \in 1..Len(kw) : cs[i + j - 1] = kw[j]

\* r"\b(interest|riba|conventional bank|loan interest|usury|usurious)\b"
INTEREST_KEYWORDS ==
    { <<"i", "n", "t", "e", "r", "e", "s", "t">>,
      <<"r", "i", "b", "a">>,
      <<"c", "o", "n", "v", "e", "n", "t", "i", "o", "n", "a", "l", " ", "b", "a", "n", "k">>,
      <<"l", "o", "a", "n", " ", "i", "n", "t", "e", "r", "e", "s", "t">>,
      <<"u", "s", "u", "r", "y">>,
      <<"u", "s", "u", "r", "i", "o", "u", "s">> }

\* r"\b(alcohol|beer|wine|spirits|liquor)\b"
ALCOHOL_KEYWORDS ==
    { <<"a", "l", "c", "o", "h", "o", "l">>,
      <<"b", "e", "e", "r">>,
      <<"w", "i", "n", "e">>,
      <<"s", "p", "i", "r", "i", "t", "s">>,
      <<"l", "i", "q", "u", "o", "r">> }

\* r"\b(gambling|casino|betting|wager|lottery|bookmaker)\b"
GAMBLING_KEYWORDS ==
    { <<"g", "a", "m", "b", "l", "i", "n", "g">>,
      <<"c", "a", "s", "i", "n", "o">>,
      <<"b", "e", "t", "t", "i", "n", "g">>,
      <<"w", "a", "g", "e", "r">>,
      <<"l", "o", "t", "t", "e", "r", "y">>,
      <<"b", "o", "o", "k", "m", "a", "k", "e", "r">> }

\* r"\b(pork|swine|tobacco)\b"
PROHIBITED_PRODUCTS_KEYWORDS ==
    { <<"p", "o", "r", "k">>,
      <<"s", "w", "i", "n", "e">>,
      <<"t", "o", "b", "a", "c", "c", "o">> }

\* ("bank", "lending", "loan", "interest-bearing", "conventional finance")
LENDING_KEYWORDS ==
    { <<"b", "a", "n", "k">>,
      <<"l", "e", "n", "d", "i", "n", "g">>,
      <<"l", "o", "a", "n">>,
      <<"i", "n", "t", "e", "r", "e", "s", "t", "-", "b", "e", "a", "r", "i", "n", "g">>,
      <<"c", "o", "n", "v", "e", "n", "t", "i", "o", "n", "a", "l", " ", "f", "i", "n", "a", "n", "c", "e">> }

\* re.search(r"\b(k1|k2|...)\b", s) finds a match
re_search(keywords, s) ==
    LET cs == Expand(s)
    IN  \E kw \in keywords : \E i \in 1..Len(cs) :
            /\ OccursAt(kw, cs, i)
            /\ WordBoundary(cs, i)
            /\ WordBoundary(cs, i + Len(kw))

\* k in s, for a str k given by its characters
Contains(k, s) ==
    LET cs == Expand(s)
    IN  \E i \in 1..Len(cs) : OccursAt(k, cs, i)

\* any(k in overview for k in (...))
AnyKeywordIn(keywords, overview) == \E k \in keywords : Contains(k, overview)

REASON_LENDING == "Company's core business appears to be in conventional lending or interest-based finance."
REASON_INTEREST == "Detected keywords related to interest/riba. Further review of revenue sources is required."
REASON_ALCOHOL == "Detected keywords related to alcohol production or sale."
REASON_GAMBLING == "Detected keywords related to gambling or betting activities."
REASON_PROHIBITED == "Detected keywords related to pork or tobacco products."
REASON_NONE == "No explicit non-compliant activities found in the text."

\* what a call of screen_sharia does: return a finding, or raise
Finding(status, reasons) ==
    [raised |-> FALSE, status |-> status, reasons |-> reasons, exc |-> NoExc]
ScreenRaises(exc) ==
    [raised |-> TRUE, status |-> "", reasons |-> <<>>, exc |-> exc]

\* (analysis or {}).get("business_overview", ""): the value looked up
OverviewValue(analysis) ==
    IF analysis.isnone \/ analysis.doc.has = {} THEN JStr(EmptyStr)
    ELSE IF "business_overview" \in analysis.doc.has THEN analysis.doc.business_overview
    ELSE JStr(EmptyStr)

\* Rule 2: the reasons appended after Rule 1
OtherReasons(full_text) ==
    (IF re_search(ALCOHOL_KEYWORDS, full_text) THEN <<REASON_ALCOHOL>> ELSE <<>>)
    \o (IF re_search(GAMBLING_KEYWORDS, full_text) THEN <<REASON_GAMBLING>> ELSE <<>>)
    \o (IF re_search(PROHIBITED_PRODUCTS_KEYWORDS, full_text) THEN <<REASON_PROHIBITED>> ELSE <<>>)

\* Rule2AndVerdict as it would be if several recorded reasons escalated the
\* verdict
Rule2AndVerdict_Escalates(full_text, reasons0) ==
    LET reasons == reasons0 \o OtherReasons(full_text)
    IN  IF Len(reasons) >= 2
        THEN Finding("Fail", reasons)
        ELSE IF reasons /= <<>>
        THEN Finding("Review", reasons)
        ELSE Finding("Pass", <<REASON_NONE>>)

\* the verdict as it would be if a pass carried no reason
Rule2AndVerdict_NoReason(full_text, reasons0) ==
    LET reasons == reasons0 \o OtherReasons(full_text)
    IN  IF reasons /= <<>>
        THEN Finding("Review", reasons)
        ELSE Finding("Pass", <<>>)

\* the tail of screen_sharia, from Rule 2 on, with the reasons so far
Rule2AndVerdict(full_text, reasons0) ==
    LET reasons == reasons0 \o OtherReasons(full_text)
    IN  IF reasons /= <<>>
        THEN Finding("Review", reasons)
        ELSE Finding("Pass", <<REASON_NONE>>)

\* screen_sharia as it would be without the early return of Rule 1
screen_sharia_NoShortCircuit(texts, analysis) ==
    LET full_text == Lower(Join(Lit(<<" ">>), texts))
    IN  IF re_search(INTEREST_KEYWORDS, full_text)
        THEN LET value == OverviewValue(analysis)
             IN  IF value.ty /= "str"
                 THEN ScreenRaises(Exc("AttributeError", "object has no attribute 'lower'", "", NoErr, NoErr))
                 ELSE IF AnyKeywordIn(LENDING_KEYWORDS, Lower(value.s))
                 THEN Finding("Fail", <<REASON_LENDING>> \o OtherReasons(full_text))
                 ELSE Rule2AndVerdict(full_text, <<REASON_INTEREST>>)
        ELSE Rule2AndVerdict(full_text, <<>>)

screen_sharia(texts, analysis) ==
    LET full_text == Lower(Join(Lit(<<" ">>), texts))
    IN  IF re_search(INTEREST_KEYWORDS, full_text)
        THEN LET value == OverviewValue(analysis)
             IN  IF value.ty /= "str"
                 THEN ScreenRaises(Exc("AttributeError", "object has no attribute 'lower'", "", NoErr, NoErr))
                 ELSE IF AnyKeywordIn(LENDING_KEYWORDS, Lower(value.s))
                 THEN Finding("Fail", <<REASON_LENDING>>)
                 ELSE Rule2AndVerdict(full_text, <<REASON_INTEREST>>)
        ELSE Rule2AndVerdict(full_text, <<>>)

(***************************************************************************)
(* Inputs.                                                                 *)
(***************************************************************************)
\* longest list of chunks handed to strict_json_analyze
MaxChunks == 2
\* longest list of texts handed to screen_sharia
MaxTexts == 2

\* all sequences over S of length at most n
SeqsUpTo(S, n) == UNION {[1..m -> S] : m \in 0..n}

Impls == {"backend", "agent"}
DocIds == {"doc123", "doc1"}
Prompts == {"ANALYSIS_PROMPT"}

\* chunk records: with the keys the backend copy reads, and as get_top_k
\* builds them; the long texts bring the joined pages to exactly
\* MAX_CONTEXT_CHARS (one page marker is 24 characters) and beyond it
ChunkValues ==
    { [text |-> Lit(<<"a", "b">>), page_number |-> 1],
      [text |-> Fill("x", MAX_CONTEXT_CHARS - 24), page_number |-> 2],
      [text |-> Fill("x", MAX_CONTEXT_CHARS - 23), page_number |-> 1],
      [document |-> Lit(<<"c", "d">>), metadata |-> [document_id |-> "doc1", page |-> 1]],
      [document |-> Fill("y", MAX_CONTEXT_CHARS), metadata |-> [document_id |-> "doc1", page |-> 12]] }

ChunkLists == SeqsUpTo(ChunkValues, MaxChunks)

ParsedDocs ==
    { Dict(AnalysisKeys, "Acme", <<>>, JStr(Lit(<<"b", "a", "n", "k">>))),
      Dict({"company_name"}, "Beta", <<>>, JNull) }

Outcomes ==
    {Content(JsonRaw(d)) : d \in ParsedDocs}
    \cup { Content(TextRaw(Lit(<<"{">>))),
           Content(TextRaw(EmptyStr)),
           Content(NoneRaw),
           Failure(Err("OpenAIError", "Connection error.")),
           Failure(Err("OpenAIError", "Rate limit reached.")) }

ScreenTexts ==
    { EmptyStr,
      Lit(<<"s", "o", "f", "t", "w", "a", "r", "e">>),
      Lit(<<"p", "a", "y", "s", " ", "i", "n", "t", "e", "r", "e", "s", "t">>),
      Lit(<<"l", "o", "a", "n", " ", "i", "n", "t", "e", "r", "e", "s", "t">>),
      Lit(<<"R", "i", "b", "a">>),
      Lit(<<"d", "i", "s", "i", "n", "t", "e", "r", "e", "s", "t", "e", "d">>),
      Lit(<<"c", "a", "s", "i", "n", "o">>),
      Lit(<<"b", "e", "e", "r", ",", "w", "i", "n", "e">>),
      Lit(<<"p", "o", "r", "k">>),
      Lit(<<"w", "i", "n", "e", " ", "c", "a", "s", "i", "n", "o", " ", "t", "o", "b", "a", "c", "c", "o">>),
      Lit(<<"w", "i", "n", "e", "r", "y">>),
      Lit(<<"c", "o", "n", "v", "e", "n", "t", "i", "o", "n", "a", "l">>),
      Lit(<<"b", "a", "n", "k">>) }

ScreenTextLists == SeqsUpTo(ScreenTexts, MaxTexts)

Overviews ==
    { Lit(<<"b", "a", "n", "k">>),
      Lit(<<"L", "e", "n", "d", "i", "n", "g", " ", "p", "l", "a", "t", "f", "o", "r", "m">>),
      Lit(<<"a", " ", "l", "o", "a", "n", "e", "r", " ", "p", "r", "o", "g", "r", "a", "m">>),
      Lit(<<"s", "o", "f", "t", "w", "a", "r", "e">>),
      Lit(<<"i", "n", "t", "e", "r", "e", "s", "t", "-", "b", "e", "a", "r", "i", "n", "g", " ", "d", "e", "p", "o", "s", "i", "t", "s">>) }

ScreenAnalyses ==
    { NoneResult, DictResult(EmptyDict),
      DictResult(Dict({"company_name"}, "Acme", <<>>, JNull)),
      DictResult(Dict(AnalysisKeys, "Acme", <<>>, JNull)),
      DictResult(Dict(AnalysisKeys, "Acme", <<>>, JNum)) }
    \cup {DictResult(Dict(AnalysisKeys, "Acme", <<>>, JStr(o))) : o \in Overviews}

(***************************************************************************)
(* State.                                                                  *)
(*   impl, DEMO_MODE  the llm module in use and its DEMO_MODE flag         *)
(*   gen              the frame of the current strict_json_analyze call    *)
(*   scr              the last screen_sharia call: its arguments and what  *)
(*                    it did                                               *)
(*   DOC_REGISTRY     upload.DOC_REGISTRY                                  *)
(*   collections      the collections of the ChromaDB client of rag.py     *)
(*   ANALYSIS_CACHE   analyze.ANALYSIS_CACHE: references to dict objects   *)
(*   canned_obj       the module-level dict CANNED_ANALYSIS_RESPONSE and   *)
(*                    its red_flags list, as they are now                  *)
(*   orch             the frame of the current create_analysis call        *)
(*   last_ok          per document id, what its last successful            *)
(*                    create_analysis returned                             *)
(*   lookup, ret, up  the last call, when it was a get_analysis, get_top_k *)
(*                    or upload_document call: its arguments and what it   *)
(*                    did                                                  *)
(***************************************************************************)
VARIABLES impl, DEMO_MODE, gen, scr,
          DOC_REGISTRY, collections, ANALYSIS_CACHE, canned_obj, orch, last_ok,
          lookup, ret, up, threads

vars == <<impl, DEMO_MODE, gen, scr,
          DOC_REGISTRY, collections, ANALYSIS_CACHE, canned_obj, orch, last_ok,
          lookup, ret, up, threads>>

\* the state of the pipeline around the two services
pipelineVars == <<DOC_REGISTRY, collections, ANALYSIS_CACHE, canned_obj, orch, last_ok,
                  lookup, ret, up, threads>>

IdleScreen == [called |-> FALSE, texts |-> <<>>, analysis |-> NoneResult,
               out |-> ScreenRaises(NoExc)]

(***************************************************************************)
(* The stores of the pipeline and the objects they hold.                   *)
(***************************************************************************)
\* how many uploads are followed
MaxUploads == 2

\* the values str(uuid.uuid4()) returns in a run, by name
UuidNames == <<"doc1", "doc2", "doc3", "doc4">>
Uuids == {UuidNames[i] : i \in 1..MaxUploads}

\* the document ids a caller can name: the uploaded ones, and one that
\* upload_document never returned
DocumentIds == Uuids \cup {"doc123"}

\* a dict produced by create_analysis: the analysis and, once attached, the
\* value under "sharia_findings"
NoFindings == Finding("", <<>>)
Val(doc, has_findings, findings) ==
    [doc |-> doc, has_findings |-> has_findings,
     sharia_findings |-> IF has_findings THEN findings ELSE NoFindings]
EmptyVal == Val(EmptyDict, FALSE, NoFindings)

\* a reference to a dict object.  self names the dict: the module-level
\* CANNED_ANALYSIS_RESPONSE ("canned") or a dict of its own ("fresh"), whose
\* content is val; flags names the list under "red_flags": the list of
\* CANNED_ANALYSIS_RESPONSE ("canned") or a list of its own
NoRef == [self |-> "none", flags |-> "own", val |-> EmptyVal]
CannedRef == [self |-> "canned", flags |-> "canned", val |-> EmptyVal]
FreshRef(val) == [self |-> "fresh", flags |-> "own", val |-> val]
SharedFlagsRef(val) ==
    [self |-> "fresh", flags |-> "canned", val |-> [val EXCEPT !.doc.red_flags = <<>>]]

\* the content of the dict ref points to, canned being the content of
\* CANNED_ANALYSIS_RESPONSE
Deref(ref, canned) ==
    IF ref.self = "canned" THEN canned
    ELSE IF ref.flags = "canned"
    THEN [ref.val EXCEPT !.doc.red_flags = canned.doc.red_flags]
    ELSE ref.val

\* bool(d) for a dict d
Truthy(val) == val.doc.has /= {} \/ val.has_findings

\* DOC_REGISTRY = {}, ANALYSIS_CACHE = {}, and a ChromaDB client without
\* collections
NoEntry == [present |-> FALSE, filename |-> "", pages |-> 0, chunks |-> 0]
NoCollection == [exists |-> FALSE, items |-> <<>>]
NoCached == [present |-> FALSE, ref |-> NoRef]
NoSnapshot == [present |-> FALSE, val |-> EmptyVal]
EmptyRegistry == [d \in DocumentIds |-> NoEntry]
EmptyClient == [name \in DocumentIds |-> NoCollection]
EmptyCache == [d \in DocumentIds |-> NoCached]

\* the entries of the cache as a reader sees them
Snapshot(cache, canned) ==
    [d \in DocumentIds |->
        IF cache[d].present
        THEN [present |-> TRUE, val |-> Deref(cache[d].ref, canned)]
        ELSE NoSnapshot]

\* an HTTPException; cause is the exception it was built from
HTTPException(status_code, detail, cause) ==
    [status_code |-> status_code, detail |-> detail, cause |-> cause]
NoHTTPException == HTTPException(0, "", NoExc)

\* the frames of the handlers before their first call
IdleOrch ==
    [pc |-> "idle", document_id |-> "", k |-> 0, top_chunks |-> <<>>,
     steps |-> <<>>, ref |-> NoRef, generated |-> EmptyVal, returned |-> EmptyVal,
     exc |-> NoHTTPException,
     cache_before |-> Snapshot(EmptyCache, EmptyVal),
     collections_before |-> EmptyClient]
IdleLookup ==
    [called |-> FALSE, document_id |-> "", exc |-> NoHTTPException,
     returned |-> EmptyVal,
     cache_before |-> EmptyCache, cache_after |-> EmptyCache]
IdleRet ==
    [called |-> FALSE, name |-> "", query_text |-> EmptyStr, k |-> 0,
     raised |-> FALSE, chunks |-> <<>>, embedded |-> <<>>,
     collections_before |-> EmptyClient]
IdleUp ==
    [called |-> FALSE, document_id |-> "", exc |-> NoHTTPException,
     pages |-> 0, chunks |-> 0, ids |-> <<>>]

\* the requests of create_analysis served at the same time, by the worker
\* thread serving them, and their frames before they are received
Threads == {"t1", "t2"}
NoThreads == [t \in Threads |-> [gen |-> IdleFrame, scr |-> IdleScreen, orch |-> IdleOrch]]

\* nothing uploaded, nothing analysed
PipelineIdle ==
    /\ DOC_REGISTRY = EmptyRegistry
    /\ collections = EmptyClient
    /\ ANALYSIS_CACHE = EmptyCache
    /\ canned_obj = Val(CANNED_ANALYSIS_RESPONSE(impl), FALSE, NoFindings)
    /\ orch = IdleOrch
    /\ last_ok = Snapshot(EmptyCache, EmptyVal)
    /\ lookup = IdleLookup
    /\ ret = IdleRet
    /\ up = IdleUp
    /\ threads = NoThreads

\* the generation client on its own: strict_json_analyze has not been called
InitLLM ==
    /\ impl \in Impls
    /\ DEMO_MODE \in BOOLEAN
    /\ gen = IdleFrame
    /\ scr = IdleScreen
    /\ PipelineIdle

\* a caller invokes strict_json_analyze(chunks, prompt, doc_id_for_demo)
CallAnalyze ==
    /\ gen.pc = "idle"
    /\ \E chunks \in ChunkLists, prompt \in Prompts, doc_id \in DocIds :
          gen' = StartAnalyze(impl, DEMO_MODE, chunks, prompt, doc_id)
    /\ UNCHANGED <<impl, DEMO_MODE, scr>>
    /\ UNCHANGED pipelineVars

\* the pending client.chat.completions.create call completes and the loop
\* body runs to its return, raise or continue
ChatCompletion ==
    /\ gen.pc = "loop"
    /\ \E o \in Outcomes : gen' = Attempt(gen, o)
    /\ UNCHANGED <<impl, DEMO_MODE, scr>>
    /\ UNCHANGED pipelineVars

NextLLM == CallAnalyze \/ ChatCompletion
SpecLLM == InitLLM /\ [][NextLLM]_vars

\* the compliance screen on its own: the arguments of the call are chosen,
\* the call has not run
InitSharia ==
    /\ impl \in Impls
    /\ DEMO_MODE \in BOOLEAN
    /\ gen = IdleFrame
    /\ \E texts \in ScreenTextLists, analysis \in ScreenAnalyses :
          scr = [IdleScreen EXCEPT !.texts = texts, !.analysis = analysis]
    /\ PipelineIdle

\* screen_sharia(texts, analysis) runs
Screen ==
    /\ ~scr.called
    /\ scr' = [scr EXCEPT !.called = TRUE,
                          !.out = screen_sharia(scr.texts, scr.analysis)]
    /\ UNCHANGED <<impl, DEMO_MODE, gen>>
    /\ UNCHANGED pipelineVars

NextSharia == Screen
SpecSharia == InitSharia /\ [][NextSharia]_vars

(***************************************************************************)
(* The Chunk Index (src/investment-ai-agent/backend/app/services/rag.py)   *)
(* and the embedders of llm.py.  A collection is the sequence of its       *)
(* entries in the order the store returns them, which is the order in      *)
(* which their ids were first inserted.  A vector is named by the text it  *)
(* was computed from.                                                      *)
(***************************************************************************)
\* text.replace("\n", " ")
ReplaceNewlines(s) == Norm([i \in 1..Len(s) |-> <<IF s[i][1] = "\n" THEN " " ELSE s[i][1], s[i][2]>>])

\* int.from_bytes(hashlib.sha256(text.encode("utf-8")).digest()[:4], "big"):
\* the seed is named by the text it is the digest of
Seed(text) == [sha256 |-> text]

\* np.random.RandomState(seed): a generator that has drawn nothing yet
RandomState(seed) == [seed |-> seed, pos |-> 0]

\* rng.rand(dim) - 0.5, scaled by its norm: the numbers the generator gives
\* from where it stands
Rand(rng) == [seed |-> rng.seed, from |-> rng.pos]

\* _hash_embed(text), the body of the loop of _hash_embedder: a generator
\* of its own for each text
hash_embed(text) ==
    [model |-> "hash", of |-> text, vec |-> Rand(RandomState(Seed(text)))]

\* one vector of the embedder get_embedder() returns: the hash embedder
\* under DEMO_MODE, else the vector the embeddings service computes
Vector(demo, text) ==
    IF demo THEN hash_embed(text)
    ELSE [model |-> "text-embedding-3-small", of |-> ReplaceNewlines(text)]

\* the hash embedder as it would be if one generator, seeded from the first
\* text, served the whole batch
Embed_OneGenerator(demo, texts) ==
    [i \in 1..Len(texts) |->
        IF demo
        THEN [model |-> "hash", of |-> texts[i],
              vec |-> [seed |-> Seed(texts[1]), from |-> i - 1]]
        ELSE Vector(demo, texts[i])]

\* embed_func(texts)
Embed(demo, texts) == [i \in 1..Len(texts) |-> Vector(demo, texts[i])]

\* the distance the store computes between two vectors: 0 for equal vectors
Distance(u, v) ==
    IF u = v THEN 0
    ELSE 1 + (IF StrLen(u.of) >= StrLen(v.of)
              THEN StrLen(u.of) - StrLen(v.of) ELSE StrLen(v.of) - StrLen(u.of))

\* an entry of a collection
Entry(id, document, metadata, embedding) ==
    [id |-> id, document |-> document, metadata |-> metadata, embedding |-> embedding]

\* get_collection as it would be if every document shared one collection
get_collection_Shared(client, name) ==
    LET shared == "doc123"
    IN  [client |-> IF client[shared].exists THEN client
                    ELSE [client EXCEPT ![shared] = [exists |-> TRUE, items |-> <<>>]],
         handle |-> shared]

\* client.get_or_create_collection(name=name): the client afterwards and
\* the name of the collection the returned handle works on
get_collection(client, name) ==
    [client |-> IF client[name].exists THEN client
                ELSE [client EXCEPT ![name] = [exists |-> TRUE, items |-> <<>>]],
     handle |-> name]

\* collection.upsert of one entry: overwritten in place when its id is
\* there, appended otherwise
UpsertOne(items, e) ==
    IF \E i \in 1..Len(items) : items[i].id = e.id
    THEN [i \in 1..Len(items) |-> IF items[i].id = e.id THEN e ELSE items[i]]
    ELSE Append(items, e)

RECURSIVE UpsertAll(_, _)
UpsertAll(items, entries) ==
    IF entries = <<>> THEN items
    ELSE UpsertAll(UpsertOne(items, Head(entries)), Tail(entries))

\* what a call on the index does: the client afterwards, whether it raised,
\* the chunks returned and the batches handed to embed_func
IndexResult(client, raised, chunks, embedded) ==
    [client |-> client, raised |-> raised, chunks |-> chunks, embedded |-> embedded]

\* upsert_chunks(collection_name, chunks, metadatas, ids, embed_func);
\* embed_ok tells whether the embeddings service answers
upsert_chunks(client, collection_name, chunks, metadatas, ids, demo, embed_ok) ==
    IF chunks = <<>> THEN IndexResult(client, FALSE, <<>>, <<>>)
    ELSE IF ~demo /\ ~embed_ok THEN IndexResult(client, TRUE, <<>>, <<chunks>>)
    ELSE LET embeddings == Embed(demo, chunks)
             collection == get_collection(client, collection_name)
         IN  IF \E i, j \in 1..Len(ids) : i /= j /\ ids[i] = ids[j]
             THEN IndexResult(collection.client, TRUE, <<>>, <<chunks>>)
             ELSE IndexResult(
                    [collection.client EXCEPT ![collection.handle].items =
                        UpsertAll(@, [i \in 1..Len(chunks) |->
                                        Entry(ids[i], chunks[i], metadatas[i], embeddings[i])])],
                    FALSE, <<>>, <<chunks>>)

\* {"document": doc, "metadata": meta}
ChunkRecord(e) == [document |-> e.document, metadata |-> e.metadata]

\* the first n elements of s, all of s when it is shorter
FirstN(s, n) == SubSeq(s, 1, IF n < Len(s) THEN n ELSE Len(s))

\* collection.query: the entries ordered by their distance to the query
\* vector, the closest first
Nearest(items, qvec) ==
    LET Before(j, i) ==
            \/ Distance(items[j].embedding, qvec) < Distance(items[i].embedding, qvec)
            \/ /\ Distance(items[j].embedding, qvec) = Distance(items[i].embedding, qvec)
               /\ j < i
        Rank(i) == Cardinality({j \in 1..Len(items) : Before(j, i)})
    IN  [p \in 1..Len(items) |-> items[CHOOSE i \in 1..Len(items) : Rank(i) = p - 1]]

\* get_top_k as it would be if the limit were not handed to the store
get_top_k_NoLimit(client, collection_name, query_text, k, demo, embed_ok) ==
    LET collection == get_collection(client, collection_name)
        items == collection.client[collection.handle].items
    IN  IF query_text = EmptyStr
        THEN IndexResult(collection.client, FALSE,
                         [i \in 1..Len(items) |-> ChunkRecord(items[i])], <<>>)
        ELSE IF ~demo /\ ~embed_ok
        THEN IndexResult(collection.client, TRUE, <<>>, << <<query_text>> >>)
        ELSE LET query_embedding == Embed(demo, <<query_text>>)[1]
                 found == FirstN(Nearest(items, query_embedding), k)
             IN  IndexResult(collection.client, FALSE,
                             [i \in 1..Len(found) |-> ChunkRecord(found[i])],
                             << <<query_text>> >>)

\* get_top_k(collection_name, query_text, k, embed_func)
get_top_k(client, collection_name, query_text, k, demo, embed_ok) ==
    LET collection == get_collection(client, collection_name)
        items == collection.client[collection.handle].items
    IN  IF query_text = EmptyStr
        THEN LET results == FirstN(items, k)
             IN  IndexResult(collection.client, FALSE,
                             [i \in 1..Len(results) |-> ChunkRecord(results[i])], <<>>)
        ELSE IF ~demo /\ ~embed_ok
        THEN IndexResult(collection.client, TRUE, <<>>, << <<query_text>> >>)
        ELSE LET query_embedding == Embed(demo, <<query_text>>)[1]
                 found == FirstN(Nearest(items, query_embedding), k)
             IN  IndexResult(collection.client, FALSE,
                             [i \in 1..Len(found) |-> ChunkRecord(found[i])],
                             << <<query_text>> >>)

(***************************************************************************)
(* Ingestion: parsing.chunk_text and upload_document                       *)
(* (src/investment-ai-agent/backend/app/services/parsing.py,               *)
(* src/investment-ai-agent/backend/app/routers/upload.py).                 *)
(***************************************************************************)
\* the characters of the str a document id stands for
IdStr(document_id) ==
    IF document_id = "doc1"
    THEN Lit(<<"d", "b", "5", "b", "5", "f", "a", "b", "-", "8", "f", "4", "d", "-", "4", "e", "2", "7", "-", "9", "d", "a", "1", "-", "4", "9", "4", "c", "7", "3", "c", "f", "2", "5", "6", "d">>)
    ELSE IF document_id = "doc2"
    THEN Lit(<<"7", "3", "a", "b", "4", "8", "7", "6", "-", "7", "7", "3", "4", "-", "4", "7", "c", "1", "-", "8", "7", "f", "d", "-", "e", "8", "0", "5", "e", "c", "9", "9", "1", "0", "8", "d">>)
    ELSE IF document_id = "doc3"
    THEN Lit(<<"3", "0", "9", "d", "6", "b", "7", "9", "-", "9", "6", "5", "e", "-", "4", "a", "3", "2", "-", "9", "a", "e", "4", "-", "4", "5", "5", "0", "8", "2", "0", "1", "e", "2", "b", "d">>)
    ELSE IF document_id = "doc4"
    THEN Lit(<<"7", "9", "c", "b", "9", "e", "8", "6", "-", "8", "3", "0", "c", "-", "4", "1", "c", "2", "-", "8", "d", "c", "c", "-", "6", "9", "2", "9", "2", "f", "4", "5", "e", "6", "7", "8">>)
    ELSE Lit(<<"d", "o", "c", "1", "2", "3">>)

IsSpaceChar(c) == c \in {" ", "\n", "\t", "\r"}

\* where the word of cs that starts at position i ends
WordEnd(cs, i) ==
    CHOOSE e \in i..Len(cs) :
        /\ \A j \in i..e : ~IsSpaceChar(cs[j])
        /\ (e = Len(cs) \/ IsSpaceChar(cs[e + 1]))

\* the words of cs that start at a position of lo..hi, in order
RECURSIVE WordsIn(_, _, _)
WordsIn(cs, lo, hi) ==
    IF lo > hi THEN <<>>
    ELSE IF lo = hi
    THEN (IF ~IsSpaceChar(cs[lo]) /\ (lo = 1 \/ IsSpaceChar(cs[lo - 1]))
          THEN <<SubSeq(cs, lo, WordEnd(cs, lo))>>
          ELSE <<>>)
    ELSE WordsIn(cs, lo, (lo + hi) \div 2) \o WordsIn(cs, ((lo + hi) \div 2) + 1, hi)

\* the maximal runs of non-whitespace characters of cs, in order
SplitChars(cs) == WordsIn(cs, 1, Len(cs))

\* text.split()
Split(text) == SplitChars(Expand(text))

\* words_per_chunk = int(chunk_size * 0.75), for the default chunk_size
WORDS_PER_CHUNK == 750

\* the words joined by a space, words_per_chunk at a time
ChunkWords(words) ==
    LET count == (Len(words) + WORDS_PER_CHUNK - 1) \div WORDS_PER_CHUNK
        Size(c) == IF Len(words) - (c - 1) * WORDS_PER_CHUNK < WORDS_PER_CHUNK
                   THEN Len(words) - (c - 1) * WORDS_PER_CHUNK
                   ELSE WORDS_PER_CHUNK
    IN  [c \in 1..count |->
            Join(Lit(<<" ">>),
                 [w \in 1..Size(c) |-> Lit(words[(c - 1) * WORDS_PER_CHUNK + w])])]

\* chunk_text(text)
chunk_text(text) == ChunkWords(Split(text))

\* the chunk id as it would be without the sequence index
ChunkId_NoSequence(document_id, page_num, i) ==
    Cat(Cat(IdStr(document_id), Lit(<<"_", "p">>)), Str(page_num))

\* f"{document_id}_p{page_num}_c{i}"
ChunkId(document_id, page_num, i) ==
    Cat(Cat(Cat(Cat(IdStr(document_id), Lit(<<"_", "p">>)), Str(page_num)),
            Lit(<<"_", "c">>)), Str(i))

\* not page_text or page_text.isspace()
IsBlank(page_text) ==
    \A i \in 1..Len(page_text) : IsSpaceChar(page_text[i][1])

\* the chunks, metadatas and ids of one page, as the inner loop appends them
PageBatch(document_id, page_info) ==
    IF IsBlank(page_info.text) THEN <<>>
    ELSE LET chunks == chunk_text(page_info.text)
         IN  [i \in 1..Len(chunks) |->
                [chunk |-> chunks[i],
                 metadata |-> [document_id |-> document_id, page |-> page_info.page],
                 id |-> ChunkId(document_id, page_info.page, i - 1)]]

\* all_chunks, all_metadatas and all_ids after the loop over pages_data
RECURSIVE AllBatches(_, _)
AllBatches(document_id, pages_data) ==
    IF pages_data = <<>> THEN <<>>
    ELSE PageBatch(document_id, Head(pages_data)) \o AllBatches(document_id, Tail(pages_data))

\* mimetypes.guess_type(filename)[0]
guess_type(filename) ==
    IF filename \in {"report.pdf", "blank.pdf", "broken.pdf", "annual.pdf"}
    THEN "application/pdf"
    ELSE IF filename \in {"notes.docx", "minutes.docx"}
    THEN "application/vnd.openxmlformats-officedocument.wordprocessingml.document"
    ELSE IF filename = "sheet.xlsx"
    THEN "application/vnd.openxmlformats-officedocument.spreadsheetml.sheet"
    ELSE "text/plain"

SupportedTypes ==
    {"application/pdf",
     "application/vnd.openxmlformats-officedocument.wordprocessingml.document",
     "application/vnd.openxmlformats-officedocument.spreadsheetml.sheet"}

\* what upload_document does: the registry and the client afterwards and the
\* response (exc.status_code = 0 when it returned an UploadResponse); ids is
\* all_ids as the loop over the pages left it
UploadResult(registry, client, document_id, exc, pages, chunks, ids) ==
    [registry |-> registry, client |-> client,
     up |-> [called |-> TRUE, document_id |-> document_id, exc |-> exc,
             pages |-> pages, chunks |-> chunks, ids |-> ids]]

\* upload_document as it would be if the document were registered before
\* its chunks are stored
upload_document_RegisterFirst(registry, client, document_id, file, demo, embed_ok) ==
    IF guess_type(file.filename) \notin SupportedTypes
    THEN UploadResult(registry, client, document_id,
                      HTTPException(500, "Failed to parse document: ",
                                    Exc("HTTPException", "Unsupported file type: ", "", NoErr, NoErr)),
                      0, 0, <<>>)
    ELSE IF ~file.parses
    THEN UploadResult(registry, client, document_id,
                      HTTPException(500, "Failed to parse document: ",
                                    Exc("Exception", "parser", "", NoErr, NoErr)),
                      0, 0, <<>>)
    ELSE LET pages_data == file.pages_data
             all == AllBatches(document_id, pages_data)
             all_chunks == [i \in 1..Len(all) |-> all[i].chunk]
             all_metadatas == [i \in 1..Len(all) |-> all[i].metadata]
             all_ids == [i \in 1..Len(all) |-> all[i].id]
         IN  IF all_chunks = <<>>
             THEN UploadResult(registry, client, document_id,
                               HTTPException(400, "Could not extract any text from the document.", NoExc),
                               0, 0, all_ids)
             ELSE LET r == upsert_chunks(client, document_id, all_chunks, all_metadatas,
                                         all_ids, demo, embed_ok)
                  IN  IF r.raised
                      THEN UploadResult([registry EXCEPT ![document_id] =
                                            [present |-> TRUE, filename |-> file.filename,
                                             pages |-> Len(pages_data),
                                             chunks |-> Len(all_chunks)]],
                                        r.client, document_id,
                                        HTTPException(500, "Internal Server Error",
                                                      Exc("Exception", "upsert_chunks", "", NoErr, NoErr)),
                                        0, 0, all_ids)
                      ELSE UploadResult(
                             [registry EXCEPT ![document_id] =
                                 [present |-> TRUE, filename |-> file.filename,
                                  pages |-> Len(pages_data), chunks |-> Len(all_chunks)]],
                             r.client, document_id, NoHTTPException,
                             Len(pages_data), Len(all_chunks), all_ids)

\* upload_document(file), document_id being the value of str(uuid.uuid4());
\* file.parses tells whether the parser reads the content, file.pages_data
\* is what it returns
upload_document(registry, client, document_id, file, demo, embed_ok) ==
    IF guess_type(file.filename) \notin SupportedTypes
    THEN UploadResult(registry, client, document_id,
                      HTTPException(500, "Failed to parse document: ",
                                    Exc("HTTPException", "Unsupported file type: ", "", NoErr, NoErr)),
                      0, 0, <<>>)
    ELSE IF ~file.parses
    THEN UploadResult(registry, client, document_id,
                      HTTPException(500, "Failed to parse document: ",
                                    Exc("Exception", "parser", "", NoErr, NoErr)),
                      0, 0, <<>>)
    ELSE LET pages_data == file.pages_data
             all == AllBatches(document_id, pages_data)
             all_chunks == [i \in 1..Len(all) |-> all[i].chunk]
             all_metadatas == [i \in 1..Len(all) |-> all[i].metadata]
             all_ids == [i \in 1..Len(all) |-> all[i].id]
         IN  IF all_chunks = <<>>
             THEN UploadResult(registry, client, document_id,
                               HTTPException(400, "Could not extract any text from the document.", NoExc),
                               0, 0, all_ids)
             ELSE LET r == upsert_chunks(client, document_id, all_chunks, all_metadatas,
                                         all_ids, demo, embed_ok)
                  IN  IF r.raised
                      THEN UploadResult(registry, r.client, document_id,
                                        HTTPException(500, "Internal Server Error",
                                                      Exc("Exception", "upsert_chunks", "", NoErr, NoErr)),
                                        0, 0, all_ids)
                      ELSE UploadResult(
                             [registry EXCEPT ![document_id] =
                                 [present |-> TRUE, filename |-> file.filename,
                                  pages |-> Len(pages_data), chunks |-> Len(all_chunks)]],
                             r.client, document_id, NoHTTPException,
                             Len(pages_data), Len(all_chunks), all_ids)

\* the files uploaded
PageTexts ==
    [gambling |-> Lit(<<"c", "a", "s", "i", "n", "o", " ", " ", "f", "l", "o", "o", "r", "\n">>),
     interest |-> Lit(<<"p", "a", "y", "s", " ", "r", "i", "b", "a">>),
     spaces |-> Fill(" ", 3),
     plain |-> Lit(<<"s", "o", "f", "t", "w", "a", "r", "e">>)]

UploadFiles ==
    { [filename |-> "report.pdf", parses |-> TRUE,
       pages_data |-> << [page |-> 1, text |-> PageTexts.gambling],
                         [page |-> 2, text |-> PageTexts.spaces],
                         [page |-> 3, text |-> PageTexts.interest],
                         [page |-> 4, text |-> PageTexts.plain] >>],
      [filename |-> "notes.docx", parses |-> TRUE,
       pages_data |-> << [page |-> 1, text |-> PageTexts.plain] >>],
      [filename |-> "blank.pdf", parses |-> TRUE,
       pages_data |-> << [page |-> 1, text |-> EmptyStr],
                         [page |-> 2, text |-> PageTexts.spaces] >>],
      [filename |-> "broken.pdf", parses |-> FALSE, pages_data |-> <<>>],
      [filename |-> "readme.txt", parses |-> TRUE, pages_data |-> <<>>] }

\* the document id str(uuid.uuid4()) returns: one that names no document and
\* no collection yet; the ids being interchangeable, the first such one
FreshIds ==
    LET unused == {i \in 1..MaxUploads :
                     /\ ~DOC_REGISTRY[UuidNames[i]].present
                     /\ ~collections[UuidNames[i]].exists}
    IN  {UuidNames[i] : i \in {j \in unused : \A l \in unused : j <= l}}

\* POST /upload
Upload ==
    /\ \E document_id \in FreshIds, file \in UploadFiles, embed_ok \in BOOLEAN :
          LET r == upload_document(DOC_REGISTRY, collections, document_id, file,
                                   DEMO_MODE, embed_ok)
          IN  /\ DOC_REGISTRY' = r.registry
              /\ collections' = r.client
              /\ up' = r.up
    /\ ret' = IdleRet
    /\ UNCHANGED <<impl, DEMO_MODE, threads, gen, scr, ANALYSIS_CACHE, canned_obj, orch, last_ok,
                   lookup>>

\* a caller of the Chunk Index retrieves from a collection
QueryTexts == {EmptyStr, Lit(<<"r", "i", "b", "a">>)}
TopKValues == {1, 2, 12}

Retrieve ==
    /\ \E name \in DocumentIds, query_text \in QueryTexts, k \in TopKValues,
          embed_ok \in BOOLEAN :
          LET r == get_top_k(collections, name, query_text, k, DEMO_MODE, embed_ok)
          IN  /\ collections' = r.client
              /\ ret' = [called |-> TRUE, name |-> name, query_text |-> query_text,
                         k |-> k, raised |-> r.raised, chunks |-> r.chunks,
                         embedded |-> r.embedded, collections_before |-> collections]
    /\ up' = IdleUp
    /\ UNCHANGED <<impl, DEMO_MODE, threads, gen, scr, DOC_REGISTRY, ANALYSIS_CACHE, canned_obj,
                   orch, last_ok, lookup>>

\* the Chunk Index with its ingestion: nothing uploaded yet
InitIndex ==
    /\ impl = "agent"
    /\ DEMO_MODE \in BOOLEAN
    /\ gen = IdleFrame
    /\ scr = IdleScreen
    /\ PipelineIdle

NextIndex == Upload \/ Retrieve
SpecIndex == InitIndex /\ [][NextIndex]_vars

\* a page of one word more than a chunk takes
LongPage ==
    Lit([i \in 1..(2 * (WORDS_PER_CHUNK + 1) - 1) |-> IF i % 2 = 1 THEN "w" ELSE " "])

\* the files uploaded when pages of more than one chunk are followed
IngestFiles ==
    UploadFiles \cup
    { [filename |-> "annual.pdf", parses |-> TRUE,
       pages_data |-> << [page |-> 1, text |-> LongPage],
                         [page |-> 2, text |-> PageTexts.spaces],
                         [page |-> 3, text |-> PageTexts.plain] >>],
      [filename |-> "minutes.docx", parses |-> TRUE,
       pages_data |-> << [page |-> 1, text |-> LongPage] >>],
      [filename |-> "sheet.xlsx", parses |-> TRUE,
       pages_data |-> << [page |-> 1, text |-> PageTexts.interest] >>] }

\* POST /upload of a file of IngestFiles
Ingest ==
    /\ \E document_id \in FreshIds, file \in IngestFiles, embed_ok \in BOOLEAN :
          LET r == upload_document(DOC_REGISTRY, collections, document_id, file,
                                   DEMO_MODE, embed_ok)
          IN  /\ DOC_REGISTRY' = r.registry
              /\ collections' = r.client
              /\ up' = r.up
    /\ UNCHANGED <<impl, DEMO_MODE, threads, gen, scr, ANALYSIS_CACHE, canned_obj, orch, last_ok,
                   lookup, ret>>

\* ingestion on its own: one upload after the other
NextIngest == Ingest
SpecIngest == InitIndex /\ [][NextIngest]_vars

(***************************************************************************)
(* The Analysis Orchestrator and its cache                                 *)
(* (src/backend/app/routers/analyze.py), working on the retrieval of       *)
(* rag.py, on strict_json_analyze and on screen_sharia.                    *)
(***************************************************************************)
\* the dict object strict_json_analyze returned in frame f: under DEMO_MODE
\* CANNED_ANALYSIS_RESPONSE itself for "doc123", else a shallow copy of it
\* (backend copy) or a new empty dict (agent copy); otherwise the new dict
\* json.loads built
ResultObject(f, demo, canned) ==
    IF demo
    THEN IF f.doc_id = "doc123" THEN CannedRef
         ELSE IF f.impl = "backend"
         THEN SharedFlagsRef([canned EXCEPT !.doc.company_name = "Generic Demo Corp",
                                            !.doc.has = @ \cup {"company_name"}])
         ELSE FreshRef(EmptyVal)
    ELSE IF f.result.isnone THEN NoRef
    ELSE FreshRef(Val(f.result.doc, FALSE, NoFindings))

\* the texts handed to the screen as they would be if read under the key
\* the records of get_top_k carry
ChunkTexts_Document(top_chunks) ==
    [i \in 1..Len(top_chunks) |-> top_chunks[i].document]

\* [chunk.get('text', '') for chunk in top_chunks]
ChunkTexts(top_chunks) ==
    [i \in 1..Len(top_chunks) |->
        IF "text" \in DOMAIN top_chunks[i] THEN top_chunks[i].text ELSE EmptyStr]

\* "No explicit non-compliant" in reason: of the reasons screen_sharia
\* builds, the canned sentence of Pass is the one holding the phrase
HasNoIssuePhrase(reason) == reason = REASON_NONE

\* what the merge does: whether it raised, and the object and the canned
\* dict afterwards
MergeResult(raised, exc, ref, canned) ==
    [raised |-> raised, exc |-> exc, ref |-> ref, canned |-> canned]

\* severity_map.get(sharia_findings["status"], "Low"), as it would be with
\* the two severities exchanged
Severity_Exchanged(status) ==
    IF status = "Fail" THEN "Medium"
    ELSE IF status = "Review" THEN "High"
    ELSE "Low"

\* severity_map.get(sharia_findings["status"], "Low")
Severity(status) ==
    IF status = "Fail" THEN "High"
    ELSE IF status = "Review" THEN "Medium"
    ELSE "Low"

\* the flags the loop over sharia_findings["reasons"] appends
RECURSIVE ShariaFlags(_, _)
ShariaFlags(reasons, severity) ==
    IF reasons = <<>> THEN <<>>
    ELSE (IF HasNoIssuePhrase(Head(reasons)) THEN <<>>
          ELSE <<Flag(Head(reasons), severity, "Sharia", 0)>>)
         \o ShariaFlags(Tail(reasons), severity)

\* the merge as it would be if every reason became a red flag, whatever the
\* status
MergeFindings_FlagsAlways(ref, canned, sharia_findings) ==
    IF ref.self = "none"
    THEN MergeResult(TRUE, Exc("TypeError", "'NoneType' object does not support item assignment",
                               "", NoErr, NoErr), ref, canned)
    ELSE LET ref1 == IF ref.self = "canned" THEN ref
                     ELSE [ref EXCEPT !.val.has_findings = TRUE,
                                      !.val.sharia_findings = sharia_findings]
             canned1 == IF ref.self = "canned"
                        THEN [canned EXCEPT !.has_findings = TRUE,
                                            !.sharia_findings = sharia_findings]
                        ELSE canned
             flags == [i \in 1..Len(sharia_findings.reasons) |->
                          Flag(sharia_findings.reasons[i],
                               Severity(sharia_findings.status), "Sharia", 0)]
         IN  IF flags = <<>> THEN MergeResult(FALSE, NoExc, ref1, canned1)
             ELSE IF "red_flags" \notin Deref(ref1, canned1).doc.has
             THEN MergeResult(TRUE, Exc("KeyError", "'red_flags'", "", NoErr, NoErr),
                              ref1, canned1)
             ELSE IF ref1.flags = "canned"
             THEN MergeResult(FALSE, NoExc, ref1,
                              [canned1 EXCEPT !.doc.red_flags = @ \o flags])
             ELSE MergeResult(FALSE, NoExc,
                              [ref1 EXCEPT !.val.doc.red_flags = @ \o flags], canned1)

\* steps 5 of create_analysis: analysis_result["sharia_findings"] = ..., and
\* the appends to analysis_result["red_flags"], done on the objects in place
MergeFindings(ref, canned, sharia_findings) ==
    IF ref.self = "none"
    THEN MergeResult(TRUE, Exc("TypeError", "'NoneType' object does not support item assignment",
                               "", NoErr, NoErr), ref, canned)
    ELSE LET ref1 == IF ref.self = "canned" THEN ref
                     ELSE [ref EXCEPT !.val.has_findings = TRUE,
                                      !.val.sharia_findings = sharia_findings]
             canned1 == IF ref.self = "canned"
                        THEN [canned EXCEPT !.has_findings = TRUE,
                                            !.sharia_findings = sharia_findings]
                        ELSE canned
             flags == IF sharia_findings.status /= "Pass"
                      THEN ShariaFlags(sharia_findings.reasons, Severity(sharia_findings.status))
                      ELSE <<>>
         IN  IF flags = <<>> THEN MergeResult(FALSE, NoExc, ref1, canned1)
             ELSE IF "red_flags" \notin Deref(ref1, canned1).doc.has
             THEN MergeResult(TRUE, Exc("KeyError", "'red_flags'", "", NoErr, NoErr),
                              ref1, canned1)
             ELSE IF ref1.flags = "canned"
             THEN MergeResult(FALSE, NoExc, ref1,
                              [canned1 EXCEPT !.doc.red_flags = @ \o flags])
             ELSE MergeResult(FALSE, NoExc,
                              [ref1 EXCEPT !.val.doc.red_flags = @ \o flags], canned1)

\* the except block of create_analysis: HTTPException(500) built from e
InternalError(e) ==
    HTTPException(500, "An internal error occurred during analysis: ", e)

\* the state create_analysis works on
World(registry, client, cache, canned, g, s, o, ok) ==
    [registry |-> registry, client |-> client, cache |-> cache, canned |-> canned,
     gen |-> g, scr |-> s, orch |-> o, last_ok |-> ok]

\* the cache write as it would be if an entry already there were kept
\* (ANALYSIS_CACHE.setdefault)
CacheWrite_KeepFirst(cache, document_id, ref) ==
    IF cache[document_id].present THEN cache
    ELSE [cache EXCEPT ![document_id] = [present |-> TRUE, ref |-> ref]]

\* ANALYSIS_CACHE[document_id] = analysis_result
CacheWrite(cache, document_id, ref) ==
    [cache EXCEPT ![document_id] = [present |-> TRUE, ref |-> ref]]

\* steps 4 and 5 as they would be if the cache were written before them
ScreenAndMerge_WriteFirst(w, demo) ==
    IF w.gen.pc = "raised"
    THEN [w EXCEPT !.orch.pc = "raised", !.orch.exc = InternalError(w.gen.exc)]
    ELSE LET v == [w EXCEPT !.cache = CacheWrite(@, w.orch.document_id,
                                                 ResultObject(w.gen, demo, w.canned)),
                            !.orch.steps = Append(@, "cache")]
             ref == ResultObject(v.gen, demo, v.canned)
             chunk_texts == ChunkTexts(v.orch.top_chunks)
             analysis == IF ref.self = "none" THEN NoneResult
                         ELSE DictResult(Deref(ref, v.canned).doc)
             sharia_findings == screen_sharia(chunk_texts, analysis)
             screened == [called |-> TRUE, texts |-> chunk_texts, analysis |-> analysis,
                          out |-> sharia_findings]
             o1 == [v.orch EXCEPT !.steps = Append(@, "screening"),
                                  !.generated = IF ref.self = "none" THEN EmptyVal
                                                ELSE Deref(ref, v.canned)]
         IN  IF sharia_findings.raised
             THEN [v EXCEPT !.scr = screened,
                            !.orch = [o1 EXCEPT !.pc = "raised",
                                                !.exc = InternalError(sharia_findings.exc)]]
             ELSE LET m == MergeFindings(ref, v.canned, sharia_findings)
                      o2 == [o1 EXCEPT !.steps = Append(@, "merge"), !.ref = m.ref]
                  IN  IF m.raised
                      THEN [v EXCEPT !.scr = screened, !.canned = m.canned,
                                     !.orch = [o2 EXCEPT !.pc = "raised",
                                                         !.exc = InternalError(m.exc)]]
                      ELSE [v EXCEPT !.scr = screened, !.canned = m.canned,
                                     !.orch = [o2 EXCEPT !.pc = "caching"]]

\* create_analysis from the return (or the raise) of strict_json_analyze to
\* the cache write: steps 4 and 5 and the except block
ScreenAndMerge(w, demo) ==
    IF w.gen.pc = "raised"
    THEN [w EXCEPT !.orch.pc = "raised", !.orch.exc = InternalError(w.gen.exc)]
    ELSE LET ref == ResultObject(w.gen, demo, w.canned)
             chunk_texts == ChunkTexts(w.orch.top_chunks)
             analysis == IF ref.self = "none" THEN NoneResult
                         ELSE DictResult(Deref(ref, w.canned).doc)
             sharia_findings == screen_sharia(chunk_texts, analysis)
             screened == [called |-> TRUE, texts |-> chunk_texts, analysis |-> analysis,
                          out |-> sharia_findings]
             o1 == [w.orch EXCEPT !.steps = Append(@, "screening"),
                                  !.generated = IF ref.self = "none" THEN EmptyVal
                                                ELSE Deref(ref, w.canned)]
         IN  IF sharia_findings.raised
             THEN [w EXCEPT !.scr = screened,
                            !.orch = [o1 EXCEPT !.pc = "raised",
                                                !.exc = InternalError(sharia_findings.exc)]]
             ELSE LET m == MergeFindings(ref, w.canned, sharia_findings)
                      o2 == [o1 EXCEPT !.steps = Append(@, "merge"), !.ref = m.ref]
                  IN  IF m.raised
                      THEN [w EXCEPT !.scr = screened, !.canned = m.canned,
                                     !.orch = [o2 EXCEPT !.pc = "raised",
                                                         !.exc = InternalError(m.exc)]]
                      ELSE [w EXCEPT !.scr = screened, !.canned = m.canned,
                                     !.orch = [o2 EXCEPT !.pc = "caching"]]

\* the cache write as it would be if the cache had one slot for all documents
CacheAndReturn_OneSlot(w) ==
    LET written == CacheWrite(w.cache, w.orch.document_id, w.orch.ref)
    IN  [w EXCEPT
           !.cache = [d \in DOMAIN w.cache |-> written[w.orch.document_id]],
           !.last_ok[w.orch.document_id] =
               [present |-> TRUE, val |-> Deref(w.orch.ref, w.canned)],
           !.orch = [w.orch EXCEPT !.pc = "returned",
                                   !.steps = @ \o <<"cache", "return">>,
                                   !.returned = Deref(w.orch.ref, w.canned)]]

\* step 6 of create_analysis: the cache write and the return
CacheAndReturn(w) ==
    [w EXCEPT
       !.cache = CacheWrite(@, w.orch.document_id, w.orch.ref),
       !.last_ok[w.orch.document_id] =
           [present |-> TRUE, val |-> Deref(w.orch.ref, w.canned)],
       !.orch = [w.orch EXCEPT !.pc = "returned",
                               !.steps = @ \o <<"cache", "return">>,
                               !.returned = Deref(w.orch.ref, w.canned)]]

\* create_analysis runs on from the merge: to the cache write when the merge
\* went through
WriteIfMerged(w) == IF w.orch.pc = "caching" THEN CacheAndReturn(w) ELSE w

\* create_analysis from the return (or the raise) of strict_json_analyze to
\* its own end: steps 4 to 6 and the except block
FinishAnalysis(w, demo) == WriteIfMerged(ScreenAndMerge(w, demo))

\* the registry check as it would be if every id passed it
Registered_Always(registry, document_id) == TRUE

\* document_id in upload.DOC_REGISTRY
Registered(registry, document_id) == registry[document_id].present

\* create_analysis as it would be if the cache were written before the
\* generation call and completed afterwards
create_analysis_Start_EarlyWrite(w, mode, demo, document_id, k) ==
    LET o0 == [IdleOrch EXCEPT !.pc = "running", !.document_id = document_id, !.k = k,
                               !.steps = <<"registry">>,
                               !.cache_before = Snapshot(w.cache, w.canned),
                               !.collections_before = w.client]
        w0 == [w EXCEPT !.gen = IdleFrame, !.scr = IdleScreen, !.orch = o0]
    IN  IF ~Registered(w.registry, document_id)
        THEN [w0 EXCEPT !.orch.pc = "raised",
                        !.orch.exc = HTTPException(404, "Document with ID not found.", NoExc)]
        ELSE LET r == get_top_k(w.client, document_id, EmptyStr, k, demo, TRUE)
                 o1 == [o0 EXCEPT !.steps = Append(@, "retrieval"), !.top_chunks = r.chunks]
                 g == StartAnalyze(mode, demo, r.chunks, "ANALYSIS_PROMPT", document_id)
                 w1 == [w0 EXCEPT !.client = r.client, !.gen = g,
                                  !.cache = CacheWrite(@, document_id, FreshRef(EmptyVal)),
                                  !.orch = [o1 EXCEPT !.pc = "generating",
                                                      !.steps = Append(@, "generation")]]
             IN  IF g.pc = "loop" THEN w1 ELSE FinishAnalysis(w1, demo)

\* create_analysis(document_id, request) with request.k = k, from its entry
\* into the call of strict_json_analyze, up to the first generation request
\* (or to the return of strict_json_analyze, when it ends before); mode names
\* the llm module in use
create_analysis_Enter(w, mode, demo, document_id, k) ==
    LET o0 == [IdleOrch EXCEPT !.pc = "running", !.document_id = document_id, !.k = k,
                               !.steps = <<"registry">>,
                               !.cache_before = Snapshot(w.cache, w.canned),
                               !.collections_before = w.client]
        w0 == [w EXCEPT !.gen = IdleFrame, !.scr = IdleScreen, !.orch = o0]
    IN  IF ~Registered(w.registry, document_id)
        THEN [w0 EXCEPT !.orch.pc = "raised",
                        !.orch.exc = HTTPException(404, "Document with ID not found.", NoExc)]
        ELSE LET r == get_top_k(w.client, document_id, EmptyStr, k, demo, TRUE)
                 o1 == [o0 EXCEPT !.steps = Append(@, "retrieval"), !.top_chunks = r.chunks]
             IN  IF r.chunks = <<>>
                 THEN [w0 EXCEPT
                         !.client = r.client,
                         !.orch = [o1 EXCEPT
                            !.pc = "raised",
                            !.exc = InternalError(
                                Exc("HTTPException",
                                    "400: Could not retrieve text chunks from the document.",
                                    "", NoErr, NoErr))]]
                 ELSE [w0 EXCEPT
                         !.client = r.client,
                         !.gen = StartAnalyze(mode, demo, r.chunks, "ANALYSIS_PROMPT",
                                              document_id),
                         !.orch = [o1 EXCEPT !.pc = "generating",
                                             !.steps = Append(@, "generation")]]

\* create_analysis runs on from strict_json_analyze once that has ended
ContinueAnalysis(w, demo) ==
    IF w.orch.pc = "generating" /\ w.gen.pc /= "loop" THEN FinishAnalysis(w, demo) ELSE w

\* create_analysis(document_id, request) with request.k = k, from its entry
\* to the first generation request (or to its end, when it ends before)
create_analysis_Start(w, mode, demo, document_id, k) ==
    ContinueAnalysis(create_analysis_Enter(w, mode, demo, document_id, k), demo)

\* the pending generation request of create_analysis completes with o, and
\* the handler runs on to the next request or to its end
create_analysis_Resume(w, demo, o) ==
    ContinueAnalysis([w EXCEPT !.gen = Attempt(w.gen, o)], demo)

\* what get_analysis does: the cache afterwards and the response
LookupResult(cache, exc, returned) == [cache |-> cache, exc |-> exc, returned |-> returned]

\* get_analysis as it would be if it took the entry out of the cache
\* (ANALYSIS_CACHE.pop in place of ANALYSIS_CACHE.get)
get_analysis_Pop(cache, canned, document_id) ==
    LET result == IF cache[document_id].present
                  THEN Deref(cache[document_id].ref, canned) ELSE EmptyVal
        popped == [cache EXCEPT ![document_id] = NoCached]
    IN  IF ~cache[document_id].present \/ ~Truthy(result)
        THEN LookupResult(popped, HTTPException(404, "Analysis not found.", NoExc), EmptyVal)
        ELSE LookupResult(popped, NoHTTPException, result)

\* get_analysis(document_id)
get_analysis(cache, canned, document_id) ==
    LET result == IF cache[document_id].present
                  THEN Deref(cache[document_id].ref, canned) ELSE EmptyVal
    IN  IF ~cache[document_id].present \/ ~Truthy(result)
        THEN LookupResult(cache, HTTPException(404, "Analysis not found.", NoExc), EmptyVal)
        ELSE LookupResult(cache, NoHTTPException, result)

\* the generation outcomes followed in an analysis run, and the values of k
AnalysisOutcomes ==
    {Content(JsonRaw(d)) : d \in ParsedDocs}
    \cup { Content(TextRaw(Lit(<<"{">>))),
           Failure(Err("OpenAIError", "Connection error.")) }
AnalysisKs == {1, 12}

\* the state create_analysis works on, as it is now
Now == World(DOC_REGISTRY, collections, ANALYSIS_CACHE, canned_obj, gen, scr, orch, last_ok)

\* the state after a step of create_analysis
Becomes(w) ==
    /\ DOC_REGISTRY' = w.registry
    /\ collections' = w.client
    /\ ANALYSIS_CACHE' = w.cache
    /\ canned_obj' = w.canned
    /\ gen' = w.gen
    /\ scr' = w.scr
    /\ orch' = w.orch
    /\ last_ok' = w.last_ok

\* the frames of an analysis run that has ended are kept until the next
\* call of a handler
ForgetCompletedRun == gen' = IdleFrame /\ scr' = IdleScreen /\ orch' = IdleOrch

\* POST /api/analyze/{document_id}: no analysis run is in progress
CreateAnalysis ==
    /\ orch.pc /= "generating"
    /\ \E document_id \in DocumentIds, k \in AnalysisKs :
          Becomes(create_analysis_Start(Now, impl, DEMO_MODE, document_id, k))
    /\ lookup' = IdleLookup
    /\ up' = IdleUp
    /\ UNCHANGED <<impl, DEMO_MODE, threads, ret>>

\* the generation request of the analysis run in progress completes
AnalysisCompletion ==
    /\ orch.pc = "generating"
    /\ \E o \in AnalysisOutcomes : Becomes(create_analysis_Resume(Now, DEMO_MODE, o))
    /\ UNCHANGED <<impl, DEMO_MODE, threads, lookup, ret, up>>

\* GET /api/analyze/{document_id}
GetAnalysis ==
    /\ orch.pc /= "generating"
    /\ \E document_id \in DocumentIds :
          LET r == get_analysis(ANALYSIS_CACHE, canned_obj, document_id)
          IN  /\ ANALYSIS_CACHE' = r.cache
              /\ lookup' = [called |-> TRUE, document_id |-> document_id, exc |-> r.exc,
                            returned |-> r.returned,
                            cache_before |-> ANALYSIS_CACHE, cache_after |-> r.cache]
    /\ up' = IdleUp
    /\ ForgetCompletedRun
    /\ UNCHANGED <<impl, DEMO_MODE, threads, DOC_REGISTRY, collections, canned_obj, last_ok, ret>>

\* POST /upload, next to the analysis runs (its response is not kept)
UploadForAnalysis ==
    /\ orch.pc /= "generating"
    /\ \E document_id \in FreshIds, file \in UploadFiles, embed_ok \in BOOLEAN :
          LET r == upload_document(DOC_REGISTRY, collections, document_id, file,
                                   DEMO_MODE, embed_ok)
          IN  /\ DOC_REGISTRY' = r.registry
              /\ collections' = r.client
    /\ lookup' = IdleLookup
    /\ up' = IdleUp
    /\ ForgetCompletedRun
    /\ UNCHANGED <<impl, DEMO_MODE, threads, ANALYSIS_CACHE, canned_obj, last_ok, ret>>

\* the whole pipeline, its requests handled one at a time: nothing uploaded,
\* nothing analysed
InitOrch ==
    /\ impl \in Impls
    /\ DEMO_MODE \in BOOLEAN
    /\ gen = IdleFrame
    /\ scr = IdleScreen
    /\ PipelineIdle

NextOrch == UploadForAnalysis \/ CreateAnalysis \/ AnalysisCompletion \/ GetAnalysis
SpecOrch == InitOrch /\ [][NextOrch]_vars

\* the pipeline over a store that loses its content: the collections live
\* in the directory CHROMA_DIR, whose records are removed from outside the
\* process while DOC_REGISTRY keeps its entries
StoreLost == \E d \in DocumentIds : DOC_REGISTRY[d].present /\ collections[d].items = <<>>

StoreCleared ==
    /\ orch.pc /= "generating"
    /\ \E name \in DocumentIds : collections[name].items /= <<>>
    /\ collections' = [name \in DocumentIds |-> [collections[name] EXCEPT !.items = <<>>]]
    /\ ForgetCompletedRun
    /\ lookup' = IdleLookup
    /\ up' = IdleUp
    /\ UNCHANGED <<impl, DEMO_MODE, threads, DOC_REGISTRY, ANALYSIS_CACHE, canned_obj, last_ok, ret>>

UploadBeforeLoss == ~StoreLost /\ UploadForAnalysis

NextStoreLoss ==
    UploadBeforeLoss \/ StoreCleared \/ CreateAnalysis \/ AnalysisCompletion \/ GetAnalysis
SpecStoreLoss == InitOrch /\ [][NextStoreLoss]_vars

\* the merge of create_analysis on its own: strict_json_analyze has returned
\* the dict ref points to, screen_sharia has returned a finding for it
MergeDocs ==
    { Dict(AnalysisKeys, "Acme", <<>>, JStr(Lit(<<"b", "a", "n", "k">>))),
      Dict(AnalysisKeys, "Acme", <<CANNED_RED_FLAG>>,
           JStr(Lit(<<"s", "o", "f", "t", "w", "a", "r", "e">>))),
      Dict({"company_name"}, "Beta", <<>>, JNull) }

MergeRefs(canned) ==
    {FreshRef(Val(d, FALSE, NoFindings)) : d \in MergeDocs}
    \cup {CannedRef, SharedFlagsRef(canned), FreshRef(EmptyVal)}

InitMerge ==
    /\ impl \in Impls
    /\ DEMO_MODE \in BOOLEAN
    /\ gen = IdleFrame
    /\ DOC_REGISTRY = EmptyRegistry
    /\ collections = EmptyClient
    /\ ANALYSIS_CACHE = EmptyCache
    /\ canned_obj = Val(CANNED_ANALYSIS_RESPONSE(impl), FALSE, NoFindings)
    /\ last_ok = Snapshot(EmptyCache, EmptyVal)
    /\ lookup = IdleLookup
    /\ ret = IdleRet
    /\ up = IdleUp
    /\ threads = NoThreads
    /\ \E ref \in MergeRefs(canned_obj), texts \in ScreenTextLists :
          LET analysis == DictResult(Deref(ref, canned_obj).doc)
          IN  /\ ~screen_sharia(texts, analysis).raised
              /\ scr = [called |-> TRUE, texts |-> texts, analysis |-> analysis,
                        out |-> screen_sharia(texts, analysis)]
              /\ orch = [IdleOrch EXCEPT !.pc = "merging", !.ref = ref,
                                         !.generated = Deref(ref, canned_obj)]

\* step 5 of create_analysis
Merge ==
    /\ orch.pc = "merging"
    /\ LET m == MergeFindings(orch.ref, canned_obj, scr.out)
       IN  /\ canned_obj' = m.canned
           /\ orch' = IF m.raised
                      THEN [orch EXCEPT !.pc = "raised", !.ref = m.ref,
                                        !.exc = InternalError(m.exc)]
                      ELSE [orch EXCEPT !.pc = "returned", !.ref = m.ref,
                                        !.returned = Deref(m.ref, m.canned)]
    /\ UNCHANGED <<impl, DEMO_MODE, threads, gen, scr, DOC_REGISTRY, collections, ANALYSIS_CACHE,
                   last_ok, lookup, ret, up>>

NextMerge == Merge
SpecMerge == InitMerge /\ [][NextMerge]_vars

(***************************************************************************)
(* create_analysis served by several worker threads at once: the endpoint  *)
(* is a plain def, which the framework runs in its thread pool, and        *)
(* analyze.py takes no lock.  A thread is followed from statement to       *)
(* statement where it touches what the threads share.                      *)
(***************************************************************************)
\* the file of UploadFiles of that name
FileNamed(filename) == CHOOSE f \in UploadFiles : f.filename = filename

\* the registry and the client after the uploads that precede the requests
Ingested(demo) ==
    LET first == upload_document(EmptyRegistry, EmptyClient, "doc1",
                                 FileNamed("report.pdf"), demo, TRUE)
    IN  upload_document(first.registry, first.client, "doc2",
                        FileNamed("notes.docx"), demo, TRUE)

\* the state thread t works on: what the threads share, and its own frames
ThreadWorld(t) ==
    World(DOC_REGISTRY, collections, ANALYSIS_CACHE, canned_obj,
          threads[t].gen, threads[t].scr, threads[t].orch, last_ok)

\* the state after a step of thread t
ThreadBecomes(t, w) ==
    /\ DOC_REGISTRY' = w.registry
    /\ collections' = w.client
    /\ ANALYSIS_CACHE' = w.cache
    /\ canned_obj' = w.canned
    /\ last_ok' = w.last_ok
    /\ threads' = [threads EXCEPT ![t] = [gen |-> w.gen, scr |-> w.scr, orch |-> w.orch]]
    /\ UNCHANGED <<impl, DEMO_MODE, gen, scr, orch, lookup, ret, up>>

\* thread t receives POST /api/analyze/{document_id} and runs to the
\* generation request (or to the return of strict_json_analyze)
Receive(t) ==
    /\ threads[t].orch.pc = "idle"
    /\ \E document_id \in DocumentIds, k \in AnalysisKs :
          ThreadBecomes(t, create_analysis_Enter(ThreadWorld(t), impl, DEMO_MODE,
                                                 document_id, k))

\* the generation request of thread t completes
Generation(t) ==
    /\ threads[t].orch.pc = "generating"
    /\ threads[t].gen.pc = "loop"
    /\ \E o \in AnalysisOutcomes :
          ThreadBecomes(t, [ThreadWorld(t) EXCEPT !.gen = Attempt(threads[t].gen, o)])

\* thread t runs from the end of strict_json_analyze to the cache write
Screening(t) ==
    /\ threads[t].orch.pc = "generating"
    /\ threads[t].gen.pc /= "loop"
    /\ ThreadBecomes(t, ScreenAndMerge(ThreadWorld(t), DEMO_MODE))

\* thread t writes the cache and returns
Caching(t) ==
    /\ threads[t].orch.pc = "caching"
    /\ ThreadBecomes(t, CacheAndReturn(ThreadWorld(t)))

\* two documents are uploaded, no request has been received
InitConcurrent ==
    /\ impl \in Impls
    /\ DEMO_MODE \in BOOLEAN
    /\ gen = IdleFrame
    /\ scr = IdleScreen
    /\ DOC_REGISTRY = Ingested(DEMO_MODE).registry
    /\ collections = Ingested(DEMO_MODE).client
    /\ ANALYSIS_CACHE = EmptyCache
    /\ canned_obj = Val(CANNED_ANALYSIS_RESPONSE(impl), FALSE, NoFindings)
    /\ orch = IdleOrch
    /\ last_ok = Snapshot(EmptyCache, EmptyVal)
    /\ lookup = IdleLookup
    /\ ret = IdleRet
    /\ up = IdleUp
    /\ threads = NoThreads

NextConcurrent ==
    \E t \in Threads : Receive(t) \/ Generation(t) \/ Screening(t) \/ Caching(t)
SpecConcurrent == InitConcurrent /\ [][NextConcurrent]_vars

(***************************************************************************)
(* Properties of strict_json_analyze (checked under SpecLLM).              *)
(***************************************************************************)
\* what a completed chat.completions.create call was
IsValidResponse(o) == o.kind = "content" /\ ~o.raw.isnone /\ o.raw.parses
IsParseFailure(o) == o.kind = "content" /\ ~o.raw.isnone /\ ~o.raw.parses
IsTransportFailure(o) == o.kind = "error"

\* the failure kinds of the error taxonomy, as the raised exception shows them
FailureKind(exc) ==
    IF exc.type = "ValueError" /\ exc.msg = INVALID_JSON_MSG THEN "invalid-output"
    ELSE IF exc.type = "RuntimeError" THEN "generation-failed"
    ELSE "other"

\* C1: one invocation issues at most 2 generation requests; once the second
\* request has completed the invocation has returned a record or raised, so
\* a third request is never issued.
C1_AtMostTwoRequests ==
    /\ Len(gen.requests) <= 2
    /\ Len(gen.requests) = 2 => gen.pc \in {"returned", "raised"}
    /\ gen.pc = "returned" => ~gen.result.isnone

\* C1 witness: a second request was issued and failed too
C1_Witness ==
    /\ Len(gen.requests) = 2
    /\ gen.pc = "raised"
    /\ ~IsValidResponse(gen.outcomes[1])
    /\ ~IsValidResponse(gen.outcomes[2])

\* C2: when the first response fails to parse and the second is valid, the
\* invocation returns exactly the parsed second response.
C2_SecondResponseReturned ==
    (/\ Len(gen.outcomes) = 2
     /\ IsParseFailure(gen.outcomes[1])
     /\ IsValidResponse(gen.outcomes[2]))
    => /\ gen.pc = "returned"
       /\ gen.result = DictResult(gen.outcomes[2].raw.doc)
       /\ gen.exc = NoExc

\* C2 witness: an unparseable first response followed by a valid second one
C2_Witness ==
    /\ Len(gen.outcomes) = 2
    /\ IsParseFailure(gen.outcomes[1])
    /\ IsValidResponse(gen.outcomes[2])
    /\ gen.pc = "returned"

\* C3: when both responses fail to parse, the invocation ends in the
\* invalid-output failure and returns no record.
C3_TwoParseFailuresRaise ==
    (/\ Len(gen.outcomes) = 2
     /\ IsParseFailure(gen.outcomes[1])
     /\ IsParseFailure(gen.outcomes[2]))
    => /\ gen.pc = "raised"
       /\ FailureKind(gen.exc) = "invalid-output"
       /\ gen.result = NoneResult

\* C3 witness: two unparseable responses in a row
C3_Witness ==
    /\ Len(gen.outcomes) = 2
    /\ IsParseFailure(gen.outcomes[1])
    /\ IsParseFailure(gen.outcomes[2])
    /\ gen.pc = "raised"

\* C4: after a transport/service failure on the first attempt the request is
\* retried exactly once; a second transport/service failure surfaces
\* generation-failed, which carries the underlying cause and is not
\* invalid-output.
C4_GenerationFailedKind ==
    /\ (Len(gen.outcomes) >= 1 /\ IsTransportFailure(gen.outcomes[1]))
       => \/ Len(gen.requests) = 1 /\ gen.pc = "loop"
          \/ Len(gen.requests) = 2 /\ gen.pc \in {"returned", "raised"}
    /\ (/\ Len(gen.outcomes) = 2
        /\ IsTransportFailure(gen.outcomes[1])
        /\ IsTransportFailure(gen.outcomes[2]))
       => /\ gen.pc = "raised"
          /\ FailureKind(gen.exc) = "generation-failed"
          /\ FailureKind(gen.exc) /= "invalid-output"
          /\ gen.exc.cause = gen.outcomes[2].err

\* C5: after a parse failure on the first attempt, the conversation sent on
\* the second attempt is the first one followed by the prior malformed
\* response and then the corrective instruction, and nothing else.
C5_RetryConversation ==
    (Len(gen.requests) = 2 /\ IsParseFailure(gen.outcomes[1]))
    => \E corrective \in {CORRECTIVE_BACKEND, CORRECTIVE_AGENT} :
          gen.requests[2] =
              gen.requests[1]
              \o << Msg("assistant", "", gen.outcomes[1].raw.text),
                    Msg("user", corrective, EmptyStr) >>

\* C6: the context sent never exceeds MAX_CONTEXT_CHARS: within the budget
\* the joined pages are sent unchanged, beyond it exactly their first
\* MAX_CONTEXT_CHARS characters are sent, and an over-long context is not an
\* error.
C6_ContextWithinBudget ==
    /\ \A i \in 1..Len(gen.requests) :
          LET sent == gen.requests[i][2].text
          IN  /\ StrLen(sent) <= MAX_CONTEXT_CHARS
              /\ StrLen(gen.joined) <= MAX_CONTEXT_CHARS => sent = gen.joined
              /\ StrLen(gen.joined) > MAX_CONTEXT_CHARS
                 => /\ StrLen(sent) = MAX_CONTEXT_CHARS
                    /\ IsPrefix(sent, gen.joined)
    /\ StrLen(gen.joined) > MAX_CONTEXT_CHARS => Len(gen.requests) >= 1 \/ gen.pc = "loop"

(***************************************************************************)
(* Properties of screen_sharia (checked under SpecSharia).                 *)
(***************************************************************************)
\* the concatenated, lower-cased text of the call
ScreenedText == Lower(Join(Lit(<<" ">>), scr.texts))

\* the business overview of the call: a str (empty when the key or the whole
\* analysis is absent), or not a str
OverviewIsStr == OverviewValue(scr.analysis).ty = "str"
OverviewText == Lower(OverviewValue(scr.analysis).s)

\* the call returned a finding
Screened == scr.called /\ ~scr.out.raised

HasReason(reasons, r) == \E i \in 1..Len(reasons) : reasons[i] = r

\* the reasons the alcohol, gambling and prohibited-product rules add for
\* the text of the call, in rule order
ExpectedOtherReasons ==
    (IF re_search(ALCOHOL_KEYWORDS, ScreenedText) THEN <<REASON_ALCOHOL>> ELSE <<>>)
    \o (IF re_search(GAMBLING_KEYWORDS, ScreenedText) THEN <<REASON_GAMBLING>> ELSE <<>>)
    \o (IF re_search(PROHIBITED_PRODUCTS_KEYWORDS, ScreenedText) THEN <<REASON_PROHIBITED>> ELSE <<>>)

\* C7: every finding has status Pass exactly when its reasons are the single
\* canned "no issues" sentence, has status Fail only when the lending rule
\* fired (its reason is the only one recorded, for a text with an interest
\* keyword), and has status Review whenever another rule fired and the
\* lending rule did not.
C7_FindingInvariant ==
    Screened =>
        LET status == scr.out.status
            reasons == scr.out.reasons
            lending == HasReason(reasons, REASON_LENDING)
            other == \/ HasReason(reasons, REASON_INTEREST)
                     \/ ExpectedOtherReasons /= <<>>
        IN  /\ status \in {"Pass", "Review", "Fail"}
            /\ (status = "Pass") <=> (reasons = <<REASON_NONE>>)
            /\ status = "Fail"
               => /\ reasons = <<REASON_LENDING>>
                  /\ re_search(INTEREST_KEYWORDS, ScreenedText)
            /\ lending => status = "Fail"
            /\ (other /\ ~lending) => status = "Review"
            /\ status = "Review" => other

\* C7 witness: a finding to which two rules other than lending contributed
C7_Witness ==
    /\ Screened
    /\ scr.out.status = "Review"
    /\ Len(scr.out.reasons) >= 2

\* C8: whenever the text matches an interest keyword and the business
\* overview contains a lending keyword, the finding is Fail with exactly the
\* conventional-lending reason, whatever other keywords the text contains.
C8_LendingFailsWithOneReason ==
    (/\ scr.called
     /\ re_search(INTEREST_KEYWORDS, ScreenedText)
     /\ OverviewIsStr
     /\ AnyKeywordIn(LENDING_KEYWORDS, OverviewText))
    => scr.out = Finding("Fail", <<REASON_LENDING>>)

\* C8 witness: an interest keyword and a lending overview, in a text that
\* also names alcohol, gambling and a prohibited product
C8_Witness ==
    /\ scr.called
    /\ re_search(INTEREST_KEYWORDS, ScreenedText)
    /\ OverviewIsStr
    /\ AnyKeywordIn(LENDING_KEYWORDS, OverviewText)
    /\ Len(ExpectedOtherReasons) = 3
    /\ scr.out.status = "Fail"

\* C9: when the text matches an interest keyword and the business overview
\* has no lending keyword (as a whole word), the finding is Review with the
\* revenue-review reason first, followed by one reason per matching alcohol,
\* gambling and prohibited-product rule, in that order.
C9_SoftInterestContinues ==
    (/\ scr.called
     /\ re_search(INTEREST_KEYWORDS, ScreenedText)
     /\ OverviewIsStr
     /\ ~re_search(LENDING_KEYWORDS, OverviewText))
    => /\ scr.out = Finding("Review", <<REASON_INTEREST>> \o ExpectedOtherReasons)
       /\ Len(scr.out.reasons) = 1 + Len(ExpectedOtherReasons)

\* C10: the lending keywords are matched in the business overview as whole
\* words only: with an interest keyword in the text and no whole-word
\* lending keyword in the overview (e.g. "loaner"), the finding is not Fail.
C10_WholeWordLending ==
    (/\ scr.called
     /\ re_search(INTEREST_KEYWORDS, ScreenedText)
     /\ OverviewIsStr
     /\ ~re_search(LENDING_KEYWORDS, OverviewText))
    => /\ ~scr.out.raised
       /\ scr.out.status /= "Fail"

\* the analysis of the call is missing, empty, lacks business_overview, or
\* holds a null or non-string business_overview
AnalysisMalformed ==
    \/ scr.analysis.isnone
    \/ "business_overview" \notin scr.analysis.doc.has
    \/ scr.analysis.doc.business_overview.ty /= "str"

\* C11: screen_sharia never raises: for every list of texts and every
\* analysis that is missing, empty, lacks business_overview or holds a null
\* or non-string business_overview, it returns the finding it returns for an
\* empty business overview.
C11_ScreenNeverRaises ==
    (scr.called /\ AnalysisMalformed)
    => /\ ~scr.out.raised
       /\ scr.out.status \in {"Pass", "Review", "Fail"}
       /\ scr.out = screen_sharia(scr.texts,
                                  DictResult(Dict(AnalysisKeys, "", <<>>, JStr(EmptyStr))))

(***************************************************************************)
(* Properties of create_analysis and get_analysis (checked under SpecOrch, *)
(* SpecStoreLoss and SpecMerge).                                           *)
(***************************************************************************)
\* the create_analysis call has ended
RunEnded == orch.pc \in {"returned", "raised"}

\* the entries of the cache as a reader sees them now
CacheNow == Snapshot(ANALYSIS_CACHE, canned_obj)

\* the kinds of the error taxonomy, as the response shows them
ResponseKind(exc) ==
    IF exc.status_code = 404 THEN "not-found"
    ELSE IF exc.status_code = 400 THEN "no-content"
    ELSE IF exc.status_code = 500 THEN "internal-failure"
    ELSE "none"

\* C12: when the document id is not in the Document Registry, create_analysis
\* fails with not-found and performs no retrieval, no generation call, no
\* screening and no cache write: the Chunk Index and the Analysis Cache are
\* as they were before the call.
C12_UnregisteredRejected ==
    (RunEnded /\ ~DOC_REGISTRY[orch.document_id].present)
    => /\ orch.pc = "raised"
       /\ ResponseKind(orch.exc) = "not-found"
       /\ orch.steps = <<"registry">>
       /\ gen = IdleFrame
       /\ scr = IdleScreen
       /\ collections = orch.collections_before
       /\ CacheNow = orch.cache_before

\* C12 witness: an unregistered id was analysed while the index and the
\* cache held entries
C12_Witness ==
    /\ RunEnded
    /\ ~DOC_REGISTRY[orch.document_id].present
    /\ ResponseKind(orch.exc) = "not-found"
    /\ \E d \in DocumentIds : ANALYSIS_CACHE[d].present
    /\ \E d \in DocumentIds : collections[d].items /= <<>>

\* C13: when retrieval for a registered document yields zero chunks,
\* create_analysis fails with the client-facing no-content kind, which is not
\* the internal-failure kind of generation errors, and the Generation Client
\* is not invoked.
C13_NoContentKind ==
    (/\ RunEnded
     /\ DOC_REGISTRY[orch.document_id].present
     /\ orch.steps = <<"registry", "retrieval">>
     /\ orch.top_chunks = <<>>)
    => /\ orch.pc = "raised"
       /\ ResponseKind(orch.exc) = "no-content"
       /\ ResponseKind(orch.exc) /= "internal-failure"
       /\ gen = IdleFrame

\* C14: if create_analysis fails at any step, the Analysis Cache afterwards
\* has the keys and the entry contents it had before the call, and no entry
\* is written while the call is in progress.
C14_FailureLeavesCache ==
    orch.pc \in {"raised", "generating"} => CacheNow = orch.cache_before

\* C14 witness: a run failed in the generation step while the cache held an
\* entry
C14_Witness ==
    /\ orch.pc = "raised"
    /\ gen.pc = "raised"
    /\ ResponseKind(orch.exc) = "internal-failure"
    /\ \E d \in DocumentIds : ANALYSIS_CACHE[d].present

\* C15: the Analysis Cache holds one entry for each document id that was
\* analysed successfully and no other, and after a successful run for a
\* document id (a second one as well) that entry equals the result the run
\* returned, built from this run's generator output and finding alone.
C15_OneEntryLastRun ==
    /\ \A d \in DocumentIds : ANALYSIS_CACHE[d].present <=> last_ok[d].present
    /\ orch.pc = "returned"
       => /\ CacheNow[orch.document_id] = [present |-> TRUE, val |-> orch.returned]
          /\ last_ok[orch.document_id] = [present |-> TRUE, val |-> orch.returned]
          /\ orch.returned.doc = gen.result.doc
          /\ orch.returned.sharia_findings = scr.out

\* C15 witness: a second successful run for a document id whose result
\* differs from the first one's
C15_Witness ==
    /\ orch.pc = "returned"
    /\ orch.cache_before[orch.document_id].present
    /\ orch.cache_before[orch.document_id].val /= orch.returned


\* C16: in the result of a successful analysis red_flags is the generator's
\* red_flags list followed by one flag per reason of the finding, in the
\* order of the reasons, each of category Sharia and of severity High when
\* the finding is Fail and Medium when it is Review, never Low; when the
\* finding is Pass the list (and whether the key is there) is the generator's
C16_FlagsAppended ==
    orch.pc = "returned" /\ scr.called =>
        LET f == scr.out
            flags == orch.returned.doc.red_flags
            base == orch.generated.doc.red_flags
            n == Len(base)
        IN  /\ orch.returned.has_findings
            /\ orch.returned.sharia_findings = f
            /\ ("red_flags" \in orch.returned.doc.has) = ("red_flags" \in orch.generated.doc.has)
            /\ f.status = "Pass" => flags = base
            /\ f.status /= "Pass" =>
                  /\ Len(flags) = n + Len(f.reasons)
                  /\ \A i \in 1..n : flags[i] = base[i]
                  /\ \A i \in 1..Len(f.reasons) :
                        /\ flags[n + i].flag = f.reasons[i]
                        /\ flags[n + i].category = "Sharia"
                        /\ flags[n + i].severity /= "Low"
                        /\ flags[n + i].severity =
                              (IF f.status = "Fail" THEN "High" ELSE "Medium")

\* a finding of two reasons has been merged into a list that already held a flag
C16_Witness ==
    /\ orch.pc = "returned"
    /\ scr.called
    /\ scr.out.status \in {"Fail", "Review"}
    /\ Len(scr.out.reasons) >= 2
    /\ Len(orch.generated.doc.red_flags) >= 1
    /\ Len(orch.returned.doc.red_flags) = Len(orch.generated.doc.red_flags) + Len(scr.out.reasons)


\* C17: once a result is cached for a document d, what the cache holds for d
\* (contents of the result included) changes only in a step in which an
\* analysis run for d returns, and then to the result of that run; a run for
\* another document, a lookup or an upload leaves it as it was
C17_EntryChangesOnlyByOwnRun ==
    [][\A d \in DocumentIds :
          (CacheNow[d].present /\ CacheNow'[d] /= CacheNow[d]) =>
              /\ orch'.pc = "returned"
              /\ orch'.document_id = d
              /\ CacheNow'[d] = [present |-> TRUE, val |-> orch'.returned]]_vars

\* a run for one document has returned while another document had a cached
\* result, which is still what it was
C17_Witness ==
    /\ orch.pc = "returned"
    /\ \E d \in DocumentIds \ {orch.document_id} :
          /\ orch.cache_before[d].present
          /\ CacheNow[d] = orch.cache_before[d]


\* C18: get_analysis(d) returns the result of the most recent create_analysis(d)
\* that succeeded, answers 404 exactly when no analysis of d has succeeded,
\* and leaves the cache as it found it
C18_LookupReturnsLastResult ==
    lookup.called =>
        LET d == lookup.document_id
        IN  /\ (lookup.exc /= NoHTTPException) <=> ~last_ok[d].present
            /\ lookup.exc /= NoHTTPException => ResponseKind(lookup.exc) = "not-found"
            /\ lookup.exc = NoHTTPException => lookup.returned = last_ok[d].val
            /\ lookup.cache_after = lookup.cache_before
            /\ ANALYSIS_CACHE = lookup.cache_before

\* a lookup has returned the result cached for its document, while another
\* id has no result
C18_Witness ==
    /\ lookup.called
    /\ lookup.exc = NoHTTPException
    /\ lookup.returned = last_ok[lookup.document_id].val
    /\ lookup.returned.has_findings
    /\ \E d \in DocumentIds : ~last_ok[d].present


(***************************************************************************)
(* Properties of the Chunk Index (checked under SpecIndex).                *)
(***************************************************************************)
\* the entries the collection of the last retrieval held when it was called
ItemsBefore == ret.collections_before[ret.name].items

\* C19: get_top_k with an empty query on a collection of n chunks returns
\* the first min(k, n) of them as they were inserted (page after page),
\* never more than k, does not raise and hands nothing to the embedder
C19_EmptyQueryFirstK ==
    (ret.called /\ ret.query_text = EmptyStr) =>
        LET n == Len(ItemsBefore)
            m == IF ret.k < n THEN ret.k ELSE n
        IN  /\ ~ret.raised
            /\ Len(ret.chunks) = m
            /\ Len(ret.chunks) <= ret.k
            /\ \A i \in 1..m : ret.chunks[i] = ChunkRecord(ItemsBefore[i])
            /\ \A i, j \in 1..m :
                  i < j => ret.chunks[i].metadata.page < ret.chunks[j].metadata.page
            /\ ret.embedded = <<>>

\* an empty query with k below the number of chunks of the collection
C19_Witness ==
    /\ ret.called
    /\ ret.query_text = EmptyStr
    /\ ret.k >= 2
    /\ ret.k < Len(ItemsBefore)
    /\ Len(ret.chunks) = ret.k


\* C20: whatever was uploaded and retrieved before, get_top_k for a document
\* id, with or without a query, returns only chunks upserted under that id:
\* every collection holds only entries of its own document, and every chunk
\* returned is an entry of the collection of the id asked for
C20_NoCrossDocumentChunks ==
    /\ \A name \in DocumentIds : \A i \in 1..Len(collections[name].items) :
          collections[name].items[i].metadata.document_id = name
    /\ (ret.called /\ ~ret.raised) =>
          \A i \in 1..Len(ret.chunks) :
              /\ ret.chunks[i].metadata.document_id = ret.name
              /\ \E j \in 1..Len(ItemsBefore) : ret.chunks[i] = ChunkRecord(ItemsBefore[j])

\* a retrieval by similarity has returned chunks of one document while
\* another document has chunks of its own
C20_Witness ==
    /\ ret.called
    /\ ~ret.raised
    /\ ret.query_text /= EmptyStr
    /\ Len(ret.chunks) >= 2
    /\ \E other \in DocumentIds \ {ret.name} : Len(collections[other].items) >= 1


(***************************************************************************)
(* Properties of upload_document (checked under SpecIngest).               *)
(***************************************************************************)
\* the ids of the entries the collection of document d holds, in order
StoredIds(d) == [i \in 1..Len(collections[d].items) |-> collections[d].items[i].id]

\* C21: the chunk ids an ingestion run generates are pairwise distinct, and
\* when the run succeeds no chunk has overwritten another: the collection of
\* the document holds one entry per chunk produced, under the ids generated,
\* and the registry records that many chunks
C21_ChunkIdsDistinct ==
    (up.called /\ up.ids /= <<>>) =>
        /\ \A i, j \in 1..Len(up.ids) : i /= j => up.ids[i] /= up.ids[j]
        /\ up.exc = NoHTTPException =>
              /\ StoredIds(up.document_id) = up.ids
              /\ up.chunks = Len(up.ids)
              /\ DOC_REGISTRY[up.document_id].chunks = Len(up.ids)

\* an upload has stored two chunks of one page and a chunk of a later page
C21_Witness ==
    /\ up.called
    /\ up.exc = NoHTTPException
    /\ Len(up.ids) = 3
    /\ LET items == collections[up.document_id].items
       IN  /\ Len(items) = 3
           /\ items[1].metadata.page = 1
           /\ items[2].metadata.page = 1
           /\ items[3].metadata.page = 3


(***************************************************************************)
(* Properties of concurrent requests (checked under SpecConcurrent).       *)
(***************************************************************************)
\* thread t is between the start of retrieval and the cache write
InAnalysis(t) == threads[t].orch.pc \in {"generating", "caching"}

\* C22: requests for the same document id are serialized: no two
\* invocations of create_analysis for one document id are at the same time
\* between the start of retrieval and the cache write
C22_SerializedPerDocument ==
    \A t, u \in Threads :
        (t /= u /\ InAnalysis(t) /\ InAnalysis(u)) =>
            threads[t].orch.document_id /= threads[u].orch.document_id

\* create_analysis for the request of frame fr, run with nothing else going
\* on, over the same index and with the same generator outcomes
AloneStart(fr) ==
    create_analysis_Start(
        World(DOC_REGISTRY, Ingested(DEMO_MODE).client, EmptyCache,
              Val(CANNED_ANALYSIS_RESPONSE(impl), FALSE, NoFindings),
              IdleFrame, IdleScreen, IdleOrch, Snapshot(EmptyCache, EmptyVal)),
        impl, DEMO_MODE, fr.orch.document_id, fr.orch.k)
AloneResume(w, outcomes, i) ==
    IF i <= Len(outcomes) /\ w.orch.pc = "generating"
    THEN create_analysis_Resume(w, DEMO_MODE, outcomes[i]) ELSE w
Alone(fr) ==
    AloneResume(AloneResume(AloneStart(fr), fr.gen.outcomes, 1), fr.gen.outcomes, 2)

\* C23: requests for different document ids are independent: the result a
\* request returns, and the one cached for its document, is the result the
\* same request gives when run alone, whatever a concurrent request for
\* another document does, with the generator at work and with the canned
\* responses
C23_IndependentDocuments ==
    \A t, u \in Threads :
        (/\ t /= u
         /\ threads[t].orch.pc = "returned"
         /\ threads[u].orch.document_id /= threads[t].orch.document_id) =>
            /\ Alone(threads[t]).orch.pc = "returned"
            /\ threads[t].orch.returned = Alone(threads[t]).orch.returned
            /\ CacheNow[threads[t].orch.document_id] =
                   [present |-> TRUE, val |-> Alone(threads[t]).orch.returned]

\* both requests, for two documents, have returned, and the second to enter
\* its generation was the first to write the cache
C23_Witness ==
    /\ threads["t1"].orch.pc = "returned"
    /\ threads["t2"].orch.pc = "returned"
    /\ threads["t1"].orch.document_id /= threads["t2"].orch.document_id
    /\ threads["t1"].orch.cache_before[threads["t2"].orch.document_id].present = FALSE
    /\ threads["t2"].orch.cache_before[threads["t1"].orch.document_id].present = FALSE


(***************************************************************************)
(* Properties of the embedders (checked under SpecIndex).                  *)
(***************************************************************************)
\* the entries the index holds, each with its collection and its position
\* in the batch it was embedded in
StoredAt == UNION {{<<d, i>> : i \in 1..Len(collections[d].items)} : d \in DocumentIds}

\* C24: the deterministic embedder is a function of the text alone: the
\* vector stored for a text is the vector embed([t]) gives for this text on
\* its own, and two texts that are equal have equal vectors, wherever they
\* stood in their batches and whatever other texts the batches held
C24_HashEmbedderOfTextAlone ==
    DEMO_MODE =>
        /\ \A p \in StoredAt :
              collections[p[1]].items[p[2]].embedding =
                  Embed(TRUE, <<collections[p[1]].items[p[2]].document>>)[1]
        /\ \A p, q \in StoredAt :
              collections[p[1]].items[p[2]].document =
                  collections[q[1]].items[q[2]].document =>
                  collections[p[1]].items[p[2]].embedding =
                      collections[q[1]].items[q[2]].embedding

\* one text is stored first in one batch and third in another, after two
\* other texts
C24_Witness ==
    /\ DEMO_MODE
    /\ \E d, e \in DocumentIds :
          /\ Len(collections[d].items) >= 3
          /\ Len(collections[e].items) >= 1
          /\ collections[d].items[3].document = collections[e].items[1].document
          /\ collections[d].items[1].document /= collections[e].items[1].document


(***************************************************************************)
(* Properties of the order of the steps of create_analysis (checked under  *)
(* SpecOrch).                                                              *)
(***************************************************************************)
\* the steps of a run of create_analysis in the order the claim gives them
StepsInOrder ==
    <<"registry", "retrieval", "generation", "screening", "merge", "cache", "return">>

\* C25: in every run of create_analysis that succeeds the steps registry
\* check, retrieval, generation, screening, merge, cache write and return
\* happen once each and in this order; in no run, ended or not, does the
\* cache write come before the end of screening and merge
C25_StepsOnceInOrder ==
    /\ orch.pc = "returned" => orch.steps = StepsInOrder
    /\ Len(orch.steps) <= Len(StepsInOrder)
    /\ orch.steps = SubSeq(StepsInOrder, 1, Len(orch.steps))

\* a run has returned after its generation was asked twice
C25_Witness ==
    /\ orch.pc = "returned"
    /\ orch.steps = StepsInOrder
    /\ Len(gen.outcomes) = 2
    /\ ANALYSIS_CACHE[orch.document_id].present


(***************************************************************************)
(* Properties of what create_analysis hands to the screen (checked under   *)
(* SpecOrch).                                                              *)
(***************************************************************************)
\* the stored texts of the chunks the last run retrieved
RetrievedTexts == [i \in 1..Len(orch.top_chunks) |-> orch.top_chunks[i].document]

\* C26: the screen receives the texts of the retrieved chunks: when the
\* chunks retrieved for a registered document hold a gambling keyword and
\* no other keyword, the result cached by the run has sharia_findings with
\* status Review and exactly one reason
C26_ScreenSeesChunkTexts ==
    (/\ orch.pc = "returned"
     /\ screen_sharia(RetrievedTexts, NoneResult) = Finding("Review", <<REASON_GAMBLING>>)) =>
        /\ scr.texts = RetrievedTexts
        /\ CacheNow[orch.document_id].val.sharia_findings.status = "Review"
        /\ Len(CacheNow[orch.document_id].val.sharia_findings.reasons) = 1


(***************************************************************************)
(* Properties of the context strict_json_analyze builds from the records   *)
(* of get_top_k (checked under SpecOrch).                                  *)
(***************************************************************************)
\* the marker of a page: the opening words of the llm module in use, the
\* page number, the closing dashes
PageMarker(page) ==
    Cat(Cat(IF impl = "backend"
            THEN Lit(<<"-", "-", "-", " ", "S", "T", "A", "R", "T", " ", "O", "F", " ",
                       "P", "A", "G", "E", " ">>)
            ELSE Lit(<<"-", "-", "-", " ", "P", "A", "G", "E", " ">>),
            Str(page)),
        Lit(<<" ", "-", "-", "-", "\n">>))

\* C27: the context built from the chunk records get_top_k returns holds,
\* for each chunk in the order of retrieval, a marker with the page number
\* stored for the chunk and then the text stored for it
C27_ContextHoldsPageAndText ==
    (~DEMO_MODE /\ orch.pc \in {"generating", "returned", "raised"}
                /\ Len(orch.steps) >= 3) =>
        gen.joined =
            Join(Lit(<<"\n", "\n">>),
                 [i \in 1..Len(orch.top_chunks) |->
                     Cat(PageMarker(orch.top_chunks[i].metadata.page),
                         orch.top_chunks[i].document)])


(***************************************************************************)
(* Properties of a repeated analysis (checked under SpecOrch).             *)
(***************************************************************************)
\* create_analysis run once more for the document of the run that has just
\* returned, with the same k and the same answers of the generator, the
\* index being as it is
RunAgain ==
    AloneResume(AloneResume(create_analysis_Start(Now, impl, DEMO_MODE,
                                                  orch.document_id, orch.k),
                            gen.outcomes, 1),
                gen.outcomes, 2)

\* C28: a repeated analysis gives the same content: a second run for the
\* same document, over the same index and with the same generator output,
\* succeeds as the first did and returns and caches a result equal to the
\* first; no red flag of the first run appears a second time
C28_RerunSameContent ==
    orch.pc = "returned" =>
        /\ RunAgain.orch.pc = "returned"
        /\ RunAgain.orch.returned = orch.returned
        /\ Len(RunAgain.orch.returned.doc.red_flags) = Len(orch.returned.doc.red_flags)
        /\ Snapshot(RunAgain.cache, RunAgain.canned)[orch.document_id] = CacheNow[orch.document_id]

\* a second run for a document has returned what the first had cached, the
\* canned response with its red flag among the cases
C28_Witness ==
    /\ orch.pc = "returned"
    /\ orch.cache_before[orch.document_id].present
    /\ orch.cache_before[orch.document_id].val = orch.returned
    /\ DEMO_MODE
    /\ Len(orch.returned.doc.red_flags) >= 1


(***************************************************************************)
(* Properties of two attempts that fail in different ways (checked under   *)
(* SpecLLM).                                                               *)
(***************************************************************************)
\* C29: when the two attempts of one call of strict_json_analyze fail in
\* different ways, the failure surfaced is of the kind of the second
\* attempt: a parse failure and then a transport failure give
\* generation-failed, a transport failure and then a parse failure give
\* invalid-output
C29_SecondFailureDecides ==
    Len(gen.outcomes) = 2 =>
        /\ (IsParseFailure(gen.outcomes[1]) /\ IsTransportFailure(gen.outcomes[2])) =>
              gen.pc = "raised" /\ FailureKind(gen.exc) = "generation-failed"
        /\ (IsTransportFailure(gen.outcomes[1]) /\ IsParseFailure(gen.outcomes[2])) =>
              gen.pc = "raised" /\ FailureKind(gen.exc) = "invalid-output"


(***************************************************************************)
(* Properties of the registry after uploads (checked under SpecIngest).    *)
(***************************************************************************)
\* C30: after any sequence of uploads every registered id has at least one
\* chunk in the collection of its own name, and the registry records as
\* many chunks as the collection stores; an upload that fails (type not
\* supported, parser error, no text, embedding or upsert failure) leaves
\* the registry as it was
C30_RegistryMatchesIndex ==
    /\ [](\A d \in DocumentIds :
             DOC_REGISTRY[d].present =>
                 /\ collections[d].exists
                 /\ Len(collections[d].items) >= 1
                 /\ DOC_REGISTRY[d].chunks = Len(collections[d].items)
                 /\ \A i \in 1..Len(collections[d].items) :
                       collections[d].items[i].metadata.document_id = d)
    /\ [][(up'.called /\ up'.exc /= NoHTTPException) => DOC_REGISTRY' = DOC_REGISTRY]_vars

\* an upload has failed in upsert_chunks after another had registered its
\* document
C30_Witness ==
    /\ up.called
    /\ up.exc.status_code = 500
    /\ up.exc.cause.msg = "upsert_chunks"
    /\ Len(up.ids) >= 1
    /\ ~DOC_REGISTRY[up.document_id].present
    /\ \E d \in DocumentIds : DOC_REGISTRY[d].present /\ Len(collections[d].items) >= 2


(***************************************************************************)
(* Properties of the Analysis Cache as a whole (checked under SpecOrch).   *)
(***************************************************************************)
\* C31: after any sequence of uploads, analysis runs and cache reads, every
\* key of the Analysis Cache is a document id the Document Registry holds,
\* and every cached result has a sharia_findings field whose status is
\* Pass, Review or Fail and whose list of reasons is not empty
C31_CacheWellFormed ==
    \A d \in DocumentIds :
        CacheNow[d].present =>
            /\ DOC_REGISTRY[d].present
            /\ CacheNow[d].val.has_findings
            /\ CacheNow[d].val.sharia_findings.status \in {"Pass", "Review", "Fail"}
            /\ CacheNow[d].val.sharia_findings.reasons /= <<>>

\* two documents have cached results, one of them has been read, and a
\* third id is not registered
C31_Witness ==
    /\ \E d, e \in DocumentIds : d /= e /\ CacheNow[d].present /\ CacheNow[e].present
    /\ lookup.called
    /\ CacheNow[lookup.document_id].present
    /\ \E d \in DocumentIds : ~DOC_REGISTRY[d].present


(***************************************************************************)
(* Properties of retrieval as a reader of the index (checked under         *)
(* SpecIndex).                                                             *)
(***************************************************************************)
\* C32: retrieval only reads the Chunk Index: after get_top_k for any
\* document id, one for which nothing was ever upserted included, the
\* collections that exist and the chunks each of them holds are what they
\* were before the call
C32_RetrievalReadsOnly ==
    ret.called =>
        /\ \A d \in DocumentIds :
              collections[d].exists = ret.collections_before[d].exists
        /\ \A d \in DocumentIds :
              collections[d].items = ret.collections_before[d].items

====
